---- MODULE Spec2Model ----
(***************************************************************************)
(* Model of the sarvatra-ai server: account store, login / registration,   *)
(* token issuance and the authorization gates, the admin routes and the    *)
(* credential cipher (server/routes.ts, server/auth/*, server/storage.ts). *)
(*                                                                         *)
(* Strings are sequences of UTF-16 code units (integers), as JavaScript    *)
(* strings are; byte buffers are sequences of integers 0..255.             *)
(***************************************************************************)
EXTENDS Integers, Sequences, FiniteSets, Bags, TLC

VARIABLES
    users,      \* MemStorage.users: sequence of account records, id = position
    commands,   \* MemStorage.commands: sequence of command records
    inflight,   \* bag of handlers suspended at an await on real I/O
    issued,     \* every token some login has returned so far
    now,        \* the clock, in hours
    resp,       \* the HTTP exchange (request and response) completed by the last step
    probe,      \* the last application of a pure function: [fn, arg, out]
    env,        \* process.env, as the modules of the server read it
    preferences, \* MemStorage.userCommandPreferences: one record per (userId, commandId)
    client      \* one browser: localStorage, App.currentUser, the request in flight

vars == <<users, commands, inflight, issued, now, resp, probe, env, preferences, client>>

(***************************************************************************)
(* Bounds of the model.                                                    *)
(***************************************************************************)
MaxUsers == 2
MaxInflight == 1
MaxKeyLen == 2
MaxTicks == 2
MaxTokens == 1
MaxCommands == 4

(***************************************************************************)
(* Strings.                                                                *)
(***************************************************************************)
\* JavaScript null / undefined for a string-valued field
Null == <<-1>>

\* `!x` of JavaScript for a string-or-null value
Falsy(s) == s = Null \/ s = <<>>

\* Array.prototype.join
RECURSIVE Join(_, _)
Join(parts, sep) ==
    IF Len(parts) = 0 THEN <<>>
    ELSE IF Len(parts) = 1 THEN parts[1]
    ELSE parts[1] \o <<sep>> \o Join(Tail(parts), sep)

\* String.prototype.split on a one-character separator
Split(s, sep) ==
    LET seps == {i \in 1..Len(s) : s[i] = sep}
        \* position of the k-th separator; 0 before the first, Len(s)+1 after the last
        SepAt(k) == IF k = 0 THEN 0
                    ELSE IF k > Cardinality(seps) THEN Len(s) + 1
                    ELSE CHOOSE i \in seps : Cardinality({j \in seps : j <= i}) = k
    IN  [k \in 1..(Cardinality(seps) + 1) |-> SubSeq(s, SepAt(k - 1) + 1, SepAt(k) - 1)]

(***************************************************************************)
(* Encodings used by the cipher: 'utf8' and 'hex' of Node's Buffer.        *)
(***************************************************************************)
IsHighSurrogate(c) == c >= 55296 /\ c <= 56319
IsLowSurrogate(c) == c >= 56320 /\ c <= 57343
ReplacementChar == <<239, 191, 189>>

\* string -> bytes, 'latin1': the low byte of every code unit
Utf8Encode_latin1(s) == [i \in 1..Len(s) |-> s[i] % 256]

\* string -> bytes, 'utf8': an unpaired surrogate is written as U+FFFD
RECURSIVE Utf8Encode(_)
Utf8Encode(s) ==
    IF s = <<>> THEN <<>>
    ELSE LET c == Head(s) IN
        IF c < 128 THEN <<c>> \o Utf8Encode(Tail(s))
        ELSE IF c < 2048
            THEN <<192 + (c \div 64), 128 + (c % 64)>> \o Utf8Encode(Tail(s))
        ELSE IF IsHighSurrogate(c) /\ Len(s) >= 2 /\ IsLowSurrogate(s[2])
            THEN LET cp == 65536 + (c - 55296) * 1024 + (s[2] - 56320) IN
                 <<240 + (cp \div 262144), 128 + ((cp \div 4096) % 64),
                   128 + ((cp \div 64) % 64), 128 + (cp % 64)>>
                 \o Utf8Encode(Tail(Tail(s)))
        ELSE IF IsHighSurrogate(c) \/ IsLowSurrogate(c)
            THEN ReplacementChar \o Utf8Encode(Tail(s))
        ELSE <<224 + (c \div 4096), 128 + ((c \div 64) % 64), 128 + (c % 64)>>
             \o Utf8Encode(Tail(s))

IsCont(b) == b >= 128 /\ b <= 191

\* bytes -> string, 'utf8': an invalid sequence is read as U+FFFD
RECURSIVE Utf8Decode(_)
Utf8Decode(b) ==
    IF b = <<>> THEN <<>>
    ELSE LET x == Head(b) IN
        IF x < 128 THEN <<x>> \o Utf8Decode(Tail(b))
        ELSE IF x >= 194 /\ x <= 223 /\ Len(b) >= 2 /\ IsCont(b[2])
            THEN <<(x - 192) * 64 + (b[2] - 128)>> \o Utf8Decode(SubSeq(b, 3, Len(b)))
        ELSE IF x >= 224 /\ x <= 239 /\ Len(b) >= 3 /\ IsCont(b[2]) /\ IsCont(b[3])
            THEN LET c == (x - 224) * 4096 + (b[2] - 128) * 64 + (b[3] - 128) IN
                 IF c < 2048 \/ IsHighSurrogate(c) \/ IsLowSurrogate(c)
                 THEN <<65533>> \o Utf8Decode(Tail(b))
                 ELSE <<c>> \o Utf8Decode(SubSeq(b, 4, Len(b)))
        ELSE IF x >= 240 /\ x <= 244 /\ Len(b) >= 4
                /\ IsCont(b[2]) /\ IsCont(b[3]) /\ IsCont(b[4])
            THEN LET cp == (x - 240) * 262144 + (b[2] - 128) * 4096
                           + (b[3] - 128) * 64 + (b[4] - 128) IN
                 IF cp < 65536 \/ cp > 1114111
                 THEN <<65533>> \o Utf8Decode(Tail(b))
                 ELSE <<55296 + ((cp - 65536) \div 1024), 56320 + ((cp - 65536) % 1024)>>
                      \o Utf8Decode(SubSeq(b, 5, Len(b)))
        ELSE <<65533>> \o Utf8Decode(Tail(b))

HexDigit(n) == IF n < 10 THEN 48 + n ELSE 87 + n
IsHexDigit(c) == (c >= 48 /\ c <= 57) \/ (c >= 97 /\ c <= 102) \/ (c >= 65 /\ c <= 70)
HexValue(c) == IF c <= 57 THEN c - 48 ELSE IF c >= 97 THEN c - 87 ELSE c - 55

\* Buffer.toString('hex')
ToHex(b) ==
    [i \in 1..(2 * Len(b)) |->
        IF i % 2 = 1 THEN HexDigit(b[(i + 1) \div 2] \div 16)
        ELSE HexDigit(b[i \div 2] % 16)]

\* Buffer.from(s, 'hex'): decoding stops at the first pair that is not hex
FromHex(s) ==
    LET IsPair(k) == IsHexDigit(s[2 * k - 1]) /\ IsHexDigit(s[2 * k])
        bad == {k \in 1..(Len(s) \div 2) : ~IsPair(k)}
        n == IF bad = {} THEN Len(s) \div 2
             ELSE (CHOOSE k \in bad : \A m \in bad : k <= m) - 1
    IN  [k \in 1..n |-> HexValue(s[2 * k - 1]) * 16 + HexValue(s[2 * k])]

\* the alphabet of base64url: A-Z, a-z, 0-9, '-', '_'
Base64UrlDigit(n) ==
    IF n < 26 THEN 65 + n ELSE IF n < 52 THEN 71 + n ELSE IF n < 62 THEN n - 4
    ELSE IF n = 62 THEN 45 ELSE 95

Base64UrlValue(c) ==
    IF c >= 65 /\ c <= 90 THEN c - 65 ELSE IF c >= 97 /\ c <= 122 THEN c - 71
    ELSE IF c >= 48 /\ c <= 57 THEN c + 4 ELSE IF c = 45 THEN 62 ELSE 63

\* bytes -> base64url without padding
RECURSIVE Base64UrlEncode(_)
Base64UrlEncode(b) ==
    IF Len(b) = 0 THEN <<>>
    ELSE IF Len(b) = 1
        THEN <<Base64UrlDigit(b[1] \div 4), Base64UrlDigit((b[1] % 4) * 16)>>
    ELSE IF Len(b) = 2
        THEN <<Base64UrlDigit(b[1] \div 4), Base64UrlDigit((b[1] % 4) * 16 + (b[2] \div 16)),
               Base64UrlDigit((b[2] % 16) * 4)>>
    ELSE <<Base64UrlDigit(b[1] \div 4), Base64UrlDigit((b[1] % 4) * 16 + (b[2] \div 16)),
           Base64UrlDigit((b[2] % 16) * 4 + (b[3] \div 64)), Base64UrlDigit(b[3] % 64)>>
         \o Base64UrlEncode(SubSeq(b, 4, Len(b)))

\* base64url -> bytes
RECURSIVE Base64UrlDecode(_)
Base64UrlDecode(c) ==
    LET v(i) == Base64UrlValue(c[i]) IN
    IF Len(c) < 2 THEN <<>>
    ELSE IF Len(c) = 2 THEN <<v(1) * 4 + (v(2) \div 16)>>
    ELSE IF Len(c) = 3
        THEN <<v(1) * 4 + (v(2) \div 16), (v(2) % 16) * 16 + (v(3) \div 4)>>
    ELSE <<v(1) * 4 + (v(2) \div 16), (v(2) % 16) * 16 + (v(3) \div 4), (v(3) % 4) * 64 + v(4)>>
         \o Base64UrlDecode(SubSeq(c, 5, Len(c)))

(***************************************************************************)
(* JSON text of a string: JSON.stringify and JSON.parse.                   *)
(***************************************************************************)
\* "\uXXXX", lower-case hexadecimal
UnicodeEscape(c) ==
    <<92, 117, HexDigit(c \div 4096), HexDigit((c \div 256) % 16),
      HexDigit((c \div 16) % 16), HexDigit(c % 16)>>

\* the two-character escapes: backspace, tab, newline, form feed, return, '"', '\'
ShortEscapes == {<<8, 98>>, <<9, 116>>, <<10, 110>>, <<12, 102>>, <<13, 114>>,
                 <<34, 34>>, <<92, 92>>}

\* the characters of a string between the quotes of its JSON text
RECURSIVE JsonEscape(_)
JsonEscape(s) ==
    IF s = <<>> THEN <<>>
    ELSE LET c == Head(s) IN
        IF \E e \in ShortEscapes : e[1] = c
            THEN <<92, (CHOOSE e \in ShortEscapes : e[1] = c)[2]>> \o JsonEscape(Tail(s))
        ELSE IF c < 32 THEN UnicodeEscape(c) \o JsonEscape(Tail(s))
        ELSE IF IsHighSurrogate(c) /\ Len(s) >= 2 /\ IsLowSurrogate(s[2])
            THEN <<c, s[2]>> \o JsonEscape(Tail(Tail(s)))
        ELSE IF IsHighSurrogate(c) \/ IsLowSurrogate(c)
            THEN UnicodeEscape(c) \o JsonEscape(Tail(s))
        ELSE <<c>> \o JsonEscape(Tail(s))

\* JSON.stringify of a string
JsonStringify(s) == <<34>> \o JsonEscape(s) \o <<34>>

RECURSIVE JsonUnescape(_)
JsonUnescape(q) ==
    IF q = <<>> THEN <<>>
    ELSE IF q[1] # 92 \/ Len(q) < 2 THEN <<q[1]>> \o JsonUnescape(Tail(q))
    ELSE IF q[2] = 117 /\ Len(q) >= 6
        THEN <<HexValue(q[3]) * 4096 + HexValue(q[4]) * 256 + HexValue(q[5]) * 16
               + HexValue(q[6])>> \o JsonUnescape(SubSeq(q, 7, Len(q)))
    ELSE IF \E e \in ShortEscapes : e[2] = q[2]
        THEN <<(CHOOSE e \in ShortEscapes : e[2] = q[2])[1]>> \o JsonUnescape(SubSeq(q, 3, Len(q)))
    ELSE <<q[2]>> \o JsonUnescape(SubSeq(q, 3, Len(q)))

\* JSON.parse of the JSON text of a string
JsonParse(text) == JsonUnescape(SubSeq(text, 2, Len(text) - 1))

(***************************************************************************)
(* Credential cipher (routes.ts, encryptApiKey / decryptApiKey).           *)
(* scrypt and AES-256-GCM are modelled by arithmetic stand-ins that keep   *)
(* what the callers rely on: the key depends on the secret and the salt,   *)
(* the ciphertext is the plaintext combined bytewise with a keystream of   *)
(* key and IV (same length, invertible), and the tag depends on key, IV    *)
(* and every ciphertext byte.                                              *)
(***************************************************************************)
SALT_LEN == 32
IV_LEN == 12
KEY_LEN == 32
TAG_LEN == 16

\* process.env.SESSION_SECRET
SESSION_SECRET == env.SESSION_SECRET

\* randomBytes(n): the values the model draws
RandomBytes(n) == {[i \in 1..n |-> r] : r \in {17, 202}}

At(s, i) == IF s = <<>> THEN 0 ELSE s[((i - 1) % Len(s)) + 1]

\* scryptSync(secret, salt, keylen)
scryptSync(secret, salt, keylen) ==
    LET password == Utf8Encode(secret) IN
    [i \in 1..keylen |-> (At(password, i) * 31 + At(salt, i) * 17 + i) % 256]

KeyStream(key, iv, j) == (At(key, j) + At(iv, j) * 7 + j * 13) % 256

\* cipher.update + cipher.final of aes-256-gcm
GcmEncrypt(key, iv, pt) == [j \in 1..Len(pt) |-> (pt[j] + KeyStream(key, iv, j)) % 256]

\* decipher.update of aes-256-gcm
GcmDecrypt(key, iv, ct) ==
    [j \in 1..Len(ct) |-> (ct[j] + 256 - KeyStream(key, iv, j)) % 256]

RECURSIVE WeightedSum(_, _, _)
WeightedSum(ct, j, i) ==
    IF j > Len(ct) THEN 0 ELSE (ct[j] * (j + i) + WeightedSum(ct, j + 1, i)) % 256

\* cipher.getAuthTag(): 16 bytes
GcmTag(key, iv, ct) ==
    [i \in 1..TAG_LEN |->
        (At(key, i) + At(key, i + 16) * 3 + At(iv, i) * 5
         + WeightedSum(ct, 1, i) + Len(ct) * 11) % 256]

\* the tag lengths decipher.setAuthTag accepts for GCM
ValidTagLen(n) == n \in {4, 8, 12, 13, 14, 15, 16}

\* an encryptApiKey that returns the key as it came
encryptApiKey_plaintext(apiKey, salt, iv) == apiKey

\* encryptApiKey with the salt and the IV that randomBytes returned
encryptApiKey(apiKey, salt, iv) ==
    LET key == scryptSync(SESSION_SECRET, salt, KEY_LEN)
        encrypted == ToHex(GcmEncrypt(key, iv, Utf8Encode(apiKey)))
        authTag == GcmTag(key, iv, FromHex(encrypted))
    IN  Join(<<ToHex(salt), ToHex(iv), encrypted, ToHex(authTag)>>, 58)

DecryptError ==
    [ok |-> FALSE, value |-> <<>>,
     error |-> "Failed to decrypt API key - data may be corrupted or tampered with"]

\* decryptApiKey: [ok, value, error]; ok = FALSE stands for the Error it throws
decryptApiKey(encryptedData) ==
    LET parts == Split(encryptedData, 58) IN
    IF Len(parts) # 4 THEN DecryptError
    ELSE LET salt == FromHex(parts[1])
             iv == FromHex(parts[2])
             authTag == FromHex(parts[4])
             key == scryptSync(SESSION_SECRET, salt, KEY_LEN)
             ct == FromHex(parts[3])
             decrypted == Utf8Decode(GcmDecrypt(key, iv, ct))
         IN  IF iv = <<>> \/ ~ValidTagLen(Len(authTag)) THEN DecryptError
             ELSE IF SubSeq(GcmTag(key, iv, ct), 1, Len(authTag)) # authTag
                 THEN DecryptError
             ELSE [ok |-> TRUE, value |-> decrypted, error |-> ""]

(***************************************************************************)
(* Password hasher: bcrypt.hash / bcrypt.compare as called by routes.ts    *)
(* and storage.ts.  The hash is the string "$2b$<cost>$<salt><digest>";    *)
(* the digest stand-in is injective in the password for a given salt.      *)
(***************************************************************************)
saltRounds == 12

\* the salts bcrypt.hash may draw (one character each in the model)
BcryptSalts == {<<46>>, <<47>>}

\* the salt the handlers of the account specifications draw
HandlerSalts == {<<46>>}

BcryptPrefix(rounds) == <<36, 50, 98, 36, 48 + (rounds \div 10), 48 + (rounds % 10), 36>>

BcryptDigest(password, salt) ==
    LET b == Utf8Encode(password) IN
    ToHex([i \in 1..Len(b) |-> (b[i] + salt[1] + i) % 256])

\* bcrypt.hash(password, rounds) with the salt it drew
BcryptHash(password, rounds, salt) ==
    BcryptPrefix(rounds) \o salt \o BcryptDigest(password, salt)

\* whether a stored password value has the format of a bcrypt hash of this cost
IsBcryptHash(h, rounds) ==
    /\ Len(h) >= 8
    /\ SubSeq(h, 1, 7) = BcryptPrefix(rounds)
    /\ \E salt \in BcryptSalts : salt = <<h[8]>>

\* bcrypt.compare(password, hash): false, not an error, for a value that is no hash
BcryptCompare(password, h) ==
    /\ IsBcryptHash(h, saltRounds)
    /\ h = BcryptHash(password, saltRounds, <<h[8]>>)

(***************************************************************************)
(* Request validation schemas (shared/schema.ts, routes.ts).               *)
(* A body is a record of the JSON fields it carries; a schema's parse      *)
(* either fails (ZodError) or returns the fields it declares.              *)
(***************************************************************************)
Has(body, f) == f \in DOMAIN body

\* z.string().min(n)
IsStringMin(body, f, n) == Has(body, f) /\ body[f] # Null /\ Len(body[f]) >= n

SpecialChars == {33, 64, 35, 36, 37, 94, 38, 42, 40, 41, 44, 46, 63, 34, 58, 123, 125, 124, 60, 62}

\* strongPasswordSchema
strongPasswordSchema(pw) ==
    /\ pw # Null
    /\ Len(pw) >= 8
    /\ \E i \in 1..Len(pw) : pw[i] >= 65 /\ pw[i] <= 90
    /\ \E i \in 1..Len(pw) : pw[i] >= 48 /\ pw[i] <= 57
    /\ \E i \in 1..Len(pw) : pw[i] \in SpecialChars

\* loginSchema.parse succeeds
loginSchema(body) == IsStringMin(body, "username", 1) /\ IsStringMin(body, "password", 1)

\* publicRegistrationSchema.parse succeeds
publicRegistrationSchema(body) ==
    /\ IsStringMin(body, "username", 3)
    /\ Has(body, "password") /\ strongPasswordSchema(body.password)

\* what publicRegistrationSchema.parse returns: unknown keys are stripped
publicRegistrationParsed(body) == [username |-> body.username, password |-> body.password]

\* adminUserCreationSchema.parse succeeds
adminUserCreationSchema(body) ==
    /\ IsStringMin(body, "username", 3)
    /\ Has(body, "password") /\ strongPasswordSchema(body.password)
    /\ Has(body, "role") => body.role \in {"user", "admin"}

\* what adminUserCreationSchema.parse returns: role defaults to 'user'
adminUserCreationParsed(body) ==
    [username |-> body.username, password |-> body.password,
     role |-> IF Has(body, "role") THEN body.role ELSE "user"]

(***************************************************************************)
(* MemStorage (storage.ts): the account store.                             *)
(***************************************************************************)
NoTime == -1

\* getUser
getUser(id) == IF id \in 1..Len(users) THEN {users[id]} ELSE {}

\* getUserByUsername: the first account with that name, as a set of 0 or 1 records
getUserByUsername(username) ==
    LET hits == {i \in 1..Len(users) : users[i].username = username} IN
    IF hits = {} THEN {} ELSE {users[CHOOSE i \in hits : \A j \in hits : i <= j]}

\* a createUser that starts every account as pending
createdUser_alwaysPending(insertUser, id, at) ==
    [id |-> id,
     username |-> insertUser.username,
     password |-> insertUser.password,
     role |-> IF insertUser.role = "" THEN "user" ELSE insertUser.role,
     status |-> "pending",
     openaiApiKey |-> Null,
     createdAt |-> at,
     lastLoginAt |-> NoTime]

\* the record createUser builds and stores for `insertUser` = [username, password, role]
createdUser(insertUser, id, at) ==
    [id |-> id,
     username |-> insertUser.username,
     password |-> insertUser.password,
     role |-> IF insertUser.role = "" THEN "user" ELSE insertUser.role,
     status |-> IF insertUser.role = "admin" THEN "approved" ELSE "pending",
     openaiApiKey |-> Null,
     createdAt |-> at,
     lastLoginAt |-> NoTime]

\* createUser: the store after it
createUser(insertUser) == Append(users, createdUser(insertUser, Len(users) + 1, now))

\* { ...user, ...updates }
Merge(rec, updates) ==
    [f \in DOMAIN rec |-> IF f \in DOMAIN updates THEN updates[f] ELSE rec[f]]

\* an updateUser that writes only to accounts still pending
updateUser_pendingOnly(id, updates) ==
    IF id \in 1..Len(users) /\ users[id].status = "pending"
        THEN [users EXCEPT ![id] = Merge(users[id], updates)]
    ELSE users

\* updateUser: the store after it (unchanged for an unknown id)
updateUser(id, updates) ==
    IF id \in 1..Len(users) THEN [users EXCEPT ![id] = Merge(users[id], updates)]
    ELSE users

\* a sanitizer that strips the password only
sanitizeUser_passwordOnly(user) == [f \in DOMAIN user \ {"password"} |-> user[f]]

\* sanitizeUser: the account without its password and openaiApiKey fields
sanitizeUser(user) == [f \in DOMAIN user \ {"password", "openaiApiKey"} |-> user[f]]

sanitizeUsers(us) == [i \in 1..Len(us) |-> sanitizeUser(us[i])]

\* getAllUsers
getAllUsers == users

DeletedCommand(id) ==
    [id |-> id, name |-> "", isActive |-> FALSE, publishedToUsers |-> FALSE,
     present |-> FALSE]

\* getCommand, as a set of 0 or 1 records
getCommand(id) ==
    IF id \in 1..Len(commands) /\ commands[id].present THEN {commands[id]} ELSE {}

\* getAllCommands
getAllCommands == SelectSeq(commands, LAMBDA c : c.present)

\* insertCommandSchema: name and prompt are required strings
insertCommandSchema(body) == Has(body, "name") /\ Has(body, "prompt")

\* a getPublishedCommands that does not look at isActive
getPublishedCommands_ignoresActive ==
    SelectSeq(commands, LAMBDA c : c.present /\ c.publishedToUsers)

\* getPublishedCommands
getPublishedCommands ==
    SelectSeq(commands, LAMBDA c : c.present /\ c.isActive /\ c.publishedToUsers)

\* getUserCommandPreference, as a set of 0 or 1 records
getUserCommandPreference(userId, commandId) ==
    {q \in preferences : q.userId = userId /\ q.commandId = commandId}

\* getUserCommandPreferences
getUserCommandPreferences(userId) == {q \in preferences : q.userId = userId}

\* setUserCommandPreference: the store after it (the Map has one entry per key)
setUserCommandPreference(preference) ==
    (preferences \ getUserCommandPreference(preference.userId, preference.commandId))
        \cup {preference}

\* updateUserCommandPreference: the store after it (unchanged when there is none)
updateUserCommandPreference(userId, commandId, updates) ==
    (preferences \ getUserCommandPreference(userId, commandId))
        \cup {Merge(q, updates) : q \in getUserCommandPreference(userId, commandId)}

\* createCommand: the store after it
createCommand(insertCommand) ==
    Append(commands,
        [id |-> Len(commands) + 1, name |-> insertCommand.name,
         isActive |-> IF Has(insertCommand, "isActive") THEN insertCommand.isActive ELSE TRUE,
         publishedToUsers |-> IF Has(insertCommand, "publishedToUsers")
                                  THEN insertCommand.publishedToUsers ELSE FALSE,
         present |-> TRUE])

\* updateCommand: the store after it (unchanged for an unknown id)
updateCommand(id, updates) ==
    IF getCommand(id) = {} THEN commands
    ELSE [commands EXCEPT ![id] = Merge(commands[id], updates)]

\* deleteCommand: the store after it
deleteCommand(id) ==
    IF getCommand(id) = {} THEN commands
    ELSE [commands EXCEPT ![id] = DeletedCommand(id)]

\* getAdminStatistics (no route of the server records a session: usageToday is 0)
getAdminStatistics ==
    [totalUsers |-> Len(users),
     totalCommands |-> Len(getAllCommands),
     activeUsers |-> Cardinality({i \in 1..Len(users) : users[i].status = "approved"}),
     pendingUsers |-> Cardinality({i \in 1..Len(users) : users[i].status = "pending"}),
     publishedCommands |-> Len(SelectSeq(getAllCommands, LAMBDA c : c.publishedToUsers)),
     usageToday |-> 0]

(***************************************************************************)
(* Tokens (auth/jwt-utils.ts).  A token is [wf, payload, sig]: wf = FALSE  *)
(* is a string that is no JWT; sig records the key that signed and the     *)
(* payload it was computed over.                                           *)
(***************************************************************************)
\* the lifetime '24h', in hours
DefaultLifetime == 24

\* process.env.JWT_EXPIRES_IN || '24h', in hours (0 stands for a variable that is not set)
JwtExpiresInOf(envValue) == IF envValue = 0 THEN DefaultLifetime ELSE envValue

JWT_EXPIRES_IN == JwtExpiresInOf(env.JWT_EXPIRES_IN)

\* process.env.JWT_SECRET || '<default>' ("" stands for a variable that is not set)
JwtSecretOf(envValue) ==
    IF envValue = "" THEN "your-super-secret-jwt-key-change-in-production" ELSE envValue

JWT_SECRET == JwtSecretOf(env.JWT_SECRET)

\* a string claim as jwt.sign writes it into the payload segment of the token: its
\* JSON text, in UTF-8, in base64url
JwtEncodeClaim(s) == Base64UrlEncode(Utf8Encode(JsonStringify(s)))

\* a string claim as jwt.verify reads it out of the payload segment
JwtDecodeClaim(segment) == JsonParse(Utf8Decode(Base64UrlDecode(segment)))

\* jwt.sign(payload, key, {expiresIn, issuer, audience}) at time `at`; the payload
\* recorded is the one the token's payload segment decodes to
JwtSign(claims, key, iss, aud, at) ==
    LET payload == [id |-> claims.id,
                    username |-> JwtDecodeClaim(JwtEncodeClaim(claims.username)),
                    role |-> claims.role, status |-> claims.status,
                    iat |-> at, exp |-> at + JWT_EXPIRES_IN, iss |-> iss, aud |-> aud]
    IN  [wf |-> TRUE, payload |-> payload, sig |-> [key |-> key, over |-> payload]]

\* a generateToken that embeds the role of a standard account, whatever the account
generateToken_defaultRole(user, at) ==
    JwtSign([id |-> user.id, username |-> user.username, role |-> "user",
             status |-> user.status], JWT_SECRET, "sarvatra-ai", "sarvatra-ai-users", at)

\* generateToken(user) at time `at`
generateToken(user, at) ==
    JwtSign([id |-> user.id, username |-> user.username, role |-> user.role,
             status |-> user.status], JWT_SECRET, "sarvatra-ai", "sarvatra-ai-users", at)

NullPayload ==
    [id |-> 0, username |-> <<>>, role |-> "", status |-> "",
     iat |-> 0, exp |-> 0, iss |-> "", aud |-> ""]

JwtThrows(name, message) ==
    [threw |-> TRUE, name |-> name, message |-> message, value |-> NullPayload]

\* a jwt.verify that does not compare the signature with the payload it is given
JwtVerify_payloadUnsigned(token, key, iss, aud, at) ==
    IF ~token.wf THEN JwtThrows("JsonWebTokenError", "jwt malformed")
    ELSE IF token.sig.key # key THEN JwtThrows("JsonWebTokenError", "invalid signature")
    ELSE IF at >= token.payload.exp THEN JwtThrows("TokenExpiredError", "jwt expired")
    ELSE IF token.payload.aud # aud
        THEN JwtThrows("JsonWebTokenError", "jwt audience invalid")
    ELSE IF token.payload.iss # iss
        THEN JwtThrows("JsonWebTokenError", "jwt issuer invalid")
    ELSE [threw |-> FALSE, name |-> "", message |-> "", value |-> token.payload]

\* jwt.verify(token, key, {issuer, audience}) at time `at`: the decoded payload, or
\* the error it throws
JwtVerify(token, key, iss, aud, at) ==
    IF ~token.wf THEN JwtThrows("JsonWebTokenError", "jwt malformed")
    ELSE IF token.sig.key # key \/ token.sig.over # token.payload
        THEN JwtThrows("JsonWebTokenError", "invalid signature")
    ELSE IF at >= token.payload.exp THEN JwtThrows("TokenExpiredError", "jwt expired")
    ELSE IF token.payload.aud # aud
        THEN JwtThrows("JsonWebTokenError", "jwt audience invalid")
    ELSE IF token.payload.iss # iss
        THEN JwtThrows("JsonWebTokenError", "jwt issuer invalid")
    ELSE [threw |-> FALSE, name |-> "", message |-> "", value |-> token.payload]

\* a verifyToken that catches nothing
verifyTokenResult_noCatch(token, at) ==
    LET r == JwtVerify(token, JWT_SECRET, "sarvatra-ai", "sarvatra-ai-users", at) IN
    [threw |-> r.threw, null |-> FALSE, value |-> r.value]

\* verifyToken: how the call ends -- by an exception (threw), by returning null, or
\* by returning the decoded payload (value)
verifyTokenResult(token, at) ==
    LET r == JwtVerify(token, JWT_SECRET, "sarvatra-ai", "sarvatra-ai-users", at) IN
    IF r.threw THEN [threw |-> FALSE, null |-> TRUE, value |-> NullPayload]
    ELSE [threw |-> FALSE, null |-> FALSE, value |-> r.value]

\* verifyToken returns a payload rather than null
verifyToken(token, at) ==
    LET r == verifyTokenResult(token, at) IN ~r.threw /\ ~r.null

\* the JWTPayload the gates read from a verified token
Decoded(token) ==
    [id |-> token.payload.id, username |-> token.payload.username,
     role |-> token.payload.role, status |-> token.payload.status]

(***************************************************************************)
(* Authorization header and gates (auth/jwt-utils.ts, auth-middleware.ts,  *)
(* auth/admin-middleware.ts).  A header is absent or a sequence of         *)
(* lexemes: a word, one whitespace character, or a token string.           *)
(***************************************************************************)
NoJwt == [wf |-> FALSE,
          payload |-> [id |-> 0, username |-> <<>>, role |-> "", status |-> "",
                       iat |-> 0, exp |-> 0, iss |-> "", aud |-> ""],
          sig |-> [key |-> "",
                   over |-> [id |-> 0, username |-> <<>>, role |-> "", status |-> "",
                             iat |-> 0, exp |-> 0, iss |-> "", aud |-> ""]]]

Word(w) == [t |-> "word", word |-> w, jwt |-> NoJwt]
Ws == [t |-> "ws", word |-> " ", jwt |-> NoJwt]
Tok(token) == [t |-> "jwt", word |-> "", jwt |-> token]

NoHeader == [present |-> FALSE, lex |-> <<>>]
Header(lex) == [present |-> TRUE, lex |-> lex]
Bearer(token) == Header(<<Word("Bearer"), Ws, Tok(token)>>)

\* extractTokenFromHeader: [found, rest]; the regular expression is /^Bearer\s+(.+)$/
extractTokenFromHeader(authHeader) ==
    LET lex == authHeader.lex
        \* the whitespace characters that follow the word Bearer
        run == {k \in 2..Len(lex) : \A j \in 2..k : lex[j].t = "ws"}
        n == Cardinality(run)
    IN  IF ~authHeader.present \/ lex = <<>> THEN [found |-> FALSE, rest |-> <<>>]
        ELSE IF lex[1].t # "word" \/ lex[1].word # "Bearer" \/ n = 0
            THEN [found |-> FALSE, rest |-> <<>>]
        ELSE IF Len(lex) > n + 1
            THEN [found |-> TRUE, rest |-> SubSeq(lex, n + 2, Len(lex))]
        \* only whitespace follows: \s+ gives its last character back to (.+)
        ELSE IF n >= 2 THEN [found |-> TRUE, rest |-> <<lex[Len(lex)]>>]
        ELSE [found |-> FALSE, rest |-> <<>>]

\* verifyToken applied to the extracted string
verifyExtracted(rest, at) ==
    Len(rest) = 1 /\ rest[1].t = "jwt" /\ verifyToken(rest[1].jwt, at)

NoUser == [set |-> FALSE, id |-> 0, username |-> <<>>, role |-> "", status |-> ""]
ReqUser(payload) == [set |-> TRUE, id |-> payload.id, username |-> payload.username,
                     role |-> payload.role, status |-> payload.status]

Denied(code, body) == [next |-> FALSE, code |-> code, body |-> body, user |-> NoUser]
Admitted(user) == [next |-> TRUE, code |-> 0, body |-> [error |-> ""], user |-> user]

\* a gate that admits every verifiable token, whatever status it embeds
authenticateToken_anyStatus(authHeader, at) ==
    LET token == extractTokenFromHeader(authHeader) IN
    IF ~token.found
        THEN Denied(401, [error |-> "Access denied. No token provided."])
    ELSE IF ~verifyExtracted(token.rest, at)
        THEN Denied(401, [error |-> "Access denied. Invalid token."])
    ELSE Admitted(ReqUser(Decoded(token.rest[1].jwt)))

\* a gate that looks the account up and decides from its stored status
authenticateToken_storedStatus(authHeader, at) ==
    LET token == extractTokenFromHeader(authHeader) IN
    IF ~token.found
        THEN Denied(401, [error |-> "Access denied. No token provided."])
    ELSE IF ~verifyExtracted(token.rest, at)
        THEN Denied(401, [error |-> "Access denied. Invalid token."])
    ELSE LET decoded == Decoded(token.rest[1].jwt)
             stored == getUser(decoded.id)
             status == IF stored = {} THEN "rejected" ELSE (CHOOSE u \in stored : TRUE).status
         IN  IF status # "approved"
                 THEN Denied(403, [error |-> "Access denied. Account is not approved.",
                                   status |-> status])
             ELSE Admitted(ReqUser(decoded))

\* authenticateToken: what it answers, or next() with req.user set
authenticateToken(authHeader, at) ==
    LET token == extractTokenFromHeader(authHeader) IN
    IF ~token.found
        THEN Denied(401, [error |-> "Access denied. No token provided."])
    ELSE IF ~verifyExtracted(token.rest, at)
        THEN Denied(401, [error |-> "Access denied. Invalid token."])
    ELSE LET decoded == Decoded(token.rest[1].jwt) IN
        IF decoded.status # "approved"
            THEN Denied(403, [error |-> "Access denied. Account is not approved.",
                              status |-> decoded.status])
        ELSE Admitted(ReqUser(decoded))

\* requireAdmin, given req.user
requireAdmin(user) ==
    IF ~user.set
        THEN Denied(401, [error |-> "Access denied. Authentication required."])
    ELSE IF user.role # "admin"
        THEN Denied(403, [error |-> "Access denied. Admin privileges required.",
                          userRole |-> user.role])
    ELSE Admitted(user)

\* a role-or-self gate that admits administrators only
requireAdminOrSelf_adminOnly(user, targetUserId) == requireAdmin(user)

\* requireAdminOrSelf(userIdParam), given req.user and req.params[userIdParam]
\* (0 when the route has no such parameter)
requireAdminOrSelf(user, targetUserId) ==
    IF ~user.set
        THEN Denied(401, [error |-> "Access denied. Authentication required."])
    ELSE IF user.role = "admin" \/ user.id = targetUserId
        THEN Admitted(user)
    ELSE Denied(403, [error |-> "Access denied. Admin privileges or self-access required.",
                      userRole |-> user.role])

\* a chain that leaves requireAdmin out
AdminGate_authenticatedOnly(authHeader, at) == authenticateToken(authHeader, at)

\* the middleware chain authenticateToken, requireAdmin of every /api/admin route
AdminGate(authHeader, at) ==
    LET a == authenticateToken(authHeader, at) IN
    IF ~a.next THEN a ELSE requireAdmin(a.user)

(***************************************************************************)
(* Inputs the model draws.                                                 *)
(***************************************************************************)
U_admin == <<97, 100, 109, 105, 110>>                            \* "admin"
U_alice == <<97, 108, 105, 99, 101>>                             \* "alice"
U_bob == <<98, 111, 98>>                                         \* "bob"
U_al == <<97, 108>>                                              \* "al"
P_admin123 == <<97, 100, 109, 105, 110, 49, 50, 51>>             \* "admin123"
P_strong == <<83, 116, 114, 48, 110, 103, 33, 112, 97, 115, 115>> \* "Str0ng!pass"
P_strongWs == P_strong \o <<32>>                                 \* "Str0ng!pass "
P_weak == <<112, 97, 115, 115, 119, 111, 114, 100>>              \* "password"

\* the headers a client can send: none, or a token some login returned
ClientHeaders == {NoHeader} \cup {Bearer(t) : t \in issued}

(***************************************************************************)
(* Initial state: MemStorage after initialize().                           *)
(***************************************************************************)
\* a command of the Map `commands`; a deleted command leaves DeletedCommand in its
\* place (its id is never used again)
DefaultCommand(id, name) ==
    [id |-> id, name |-> name, isActive |-> TRUE, publishedToUsers |-> FALSE,
     present |-> TRUE]

DefaultCommands ==
    <<DefaultCommand(1, "Summarize"), DefaultCommand(2, "Medical Notes"),
      DefaultCommand(3, "Improve Writing")>>

SeedAdmin(salt) ==
    [id |-> 1, username |-> U_admin,
     password |-> BcryptHash(P_admin123, saltRounds, salt),
     role |-> "admin", status |-> "approved", openaiApiKey |-> Null,
     createdAt |-> 0, lastLoginAt |-> NoTime]

\* the environment of a deployment that sets both secrets and leaves the lifetime
\* at its default
ConfiguredEnv ==
    [SESSION_SECRET |-> [i \in 1..32 |-> 115], JWT_SECRET |-> "configured-jwt-secret",
     JWT_EXPIRES_IN |-> 0]

\* the browser before anything was typed: nothing under TOKEN_KEY in localStorage
\* (a sequence of at most one token), App.currentUser null, no request in flight
NoRequest == [route |-> "none", authorization |-> NoHeader, body |-> [none |-> TRUE]]
FreshClient == [token |-> <<>>, currentUser |-> "none", request |-> NoRequest]

NoResp == [route |-> "none", req |-> [none |-> TRUE], code |-> 0, body |-> [none |-> TRUE]]
NoProbe == [fn |-> "none"]

Init ==
    /\ \E salt \in HandlerSalts : users = <<SeedAdmin(salt)>>
    /\ commands = DefaultCommands
    /\ inflight = EmptyBag
    /\ issued = {}
    /\ now = 0
    /\ resp = NoResp
    /\ probe = NoProbe
    /\ env = ConfiguredEnv
    /\ preferences = {}
    /\ client = FreshClient

(***************************************************************************)
(* Handlers.  A handler that awaits real I/O (bcrypt, the AI provider) is  *)
(* two actions: up to the await, and from it; other requests run between.  *)
(***************************************************************************)
Exchange(route, req, code, body) == [route |-> route, req |-> req, code |-> code, body |-> body]

Suspend(p) ==
    /\ BagCardinality(inflight) < MaxInflight
    /\ inflight' = inflight (+) SetToBag({p})
    /\ resp' = NoResp

Resume(p) ==
    /\ BagIn(p, inflight)
    /\ inflight' = inflight (-) SetToBag({p})

Pending(kind) == {p \in BagToSet(inflight) : p.kind = kind}

\* accounts that suspended create-user handlers are still to add
PendingCreates ==
    BagCardinality([p \in Pending("register") \cup Pending("admin-create-user") |-> inflight[p]])

\* POST /api/auth/login, up to `await bcrypt.compare`
LoginStart(body) ==
    LET found == getUserByUsername(body.username) IN
    IF ~loginSchema(body)
        THEN /\ resp' = Exchange("login", body, 400, [error |-> "Invalid request"])
             /\ UNCHANGED <<users, commands, inflight, issued, now, probe, env, preferences, client>>
    ELSE IF found = {}
        THEN /\ resp' = Exchange("login", body, 401, [error |-> "Invalid credentials"])
             /\ UNCHANGED <<users, commands, inflight, issued, now, probe, env, preferences, client>>
    ELSE /\ Suspend([kind |-> "login", req |-> body,
                     user |-> CHOOSE u \in found : TRUE])
         /\ UNCHANGED <<users, commands, issued, now, probe, env, preferences, client>>

\* a login that skips the password comparison
LoginOutcome_noCompare(user, password) ==
    IF user.status # "approved" THEN "not-approved" ELSE "token"

\* a login that answers an unapproved account with the generic failure
LoginOutcome_genericDenial(user, password) ==
    IF ~BcryptCompare(password, user.password) THEN "invalid-credentials"
    ELSE IF user.status # "approved" THEN "invalid-credentials"
    ELSE "token"

\* a login that looks at the status of the account before it compares the password
LoginOutcome_statusFirst(user, password) ==
    IF user.status # "approved" THEN "not-approved"
    ELSE IF ~BcryptCompare(password, user.password) THEN "invalid-credentials"
    ELSE "token"

\* POST /api/auth/login, the checks that follow the lookup: which answer the handler
\* gives for the account it read and the submitted password
LoginOutcome(user, password) ==
    IF ~BcryptCompare(password, user.password) THEN "invalid-credentials"
    ELSE IF user.status # "approved" THEN "not-approved"
    ELSE "token"

\* a login that stores the account object it read before the comparison, with the
\* new lastLoginAt, instead of merging the one field into the current record
LoginFinish_staleRecord(p) ==
    /\ p.kind = "login"
    /\ Resume(p)
    /\ LET user == p.user
           outcome == LoginOutcome(user, p.req.password)
       IN  IF outcome = "invalid-credentials"
               THEN /\ resp' = Exchange("login", p.req, 401, [error |-> "Invalid credentials"])
                    /\ UNCHANGED <<users, issued>>
           ELSE IF outcome = "not-approved"
               THEN /\ resp' = Exchange("login", p.req, 403,
                                   [error |-> "Account pending approval",
                                    status |-> user.status])
                    /\ UNCHANGED <<users, issued>>
           ELSE LET token == generateToken(user, now) IN
                /\ users' = [users EXCEPT ![user.id] = Merge(user, [lastLoginAt |-> now])]
                /\ issued' = issued \cup {token}
                /\ resp' = Exchange("login", p.req, 200,
                               [user |-> sanitizeUser(user), token |-> token,
                                expiresIn |-> "24h"])
    /\ UNCHANGED <<commands, now, probe, env, preferences, client>>

\* POST /api/auth/login, from the result of bcrypt.compare
LoginFinish(p) ==
    /\ p.kind = "login"
    /\ Resume(p)
    /\ LET user == p.user
           outcome == LoginOutcome(user, p.req.password)
       IN  IF outcome = "invalid-credentials"
               THEN /\ resp' = Exchange("login", p.req, 401, [error |-> "Invalid credentials"])
                    /\ UNCHANGED <<users, issued>>
           ELSE IF outcome = "not-approved"
               THEN /\ resp' = Exchange("login", p.req, 403,
                                   [error |-> "Account pending approval",
                                    status |-> user.status])
                    /\ UNCHANGED <<users, issued>>
           ELSE LET token == generateToken(user, now) IN
                /\ users' = updateUser(user.id, [lastLoginAt |-> now])
                /\ issued' = issued \cup {token}
                /\ resp' = Exchange("login", p.req, 200,
                               [user |-> sanitizeUser(user), token |-> token,
                                expiresIn |-> "24h"])
    /\ UNCHANGED <<commands, now, probe, env, preferences, client>>

\* POST /api/auth/register, up to `await bcrypt.hash`
RegisterStart(body) ==
    IF ~publicRegistrationSchema(body)
        THEN /\ resp' = Exchange("register", body, 400, [error |-> "Invalid request"])
             /\ UNCHANGED <<users, commands, inflight, issued, now, probe, env, preferences, client>>
    ELSE IF getUserByUsername(body.username) # {}
        THEN /\ resp' = Exchange("register", body, 409, [error |-> "Username already exists"])
             /\ UNCHANGED <<users, commands, inflight, issued, now, probe, env, preferences, client>>
    ELSE /\ Len(users) + PendingCreates < MaxUsers
         /\ Suspend([kind |-> "register", req |-> body,
                     parsed |-> publicRegistrationParsed(body)])
         /\ UNCHANGED <<users, commands, issued, now, probe, env, preferences, client>>

\* a registration that hands the caller's role on to createUser
RegisterInsertUser_callerRole(body, hashedPassword) ==
    [username |-> body.username,
     password |-> hashedPassword,
     role |-> IF "role" \in DOMAIN body THEN body.role ELSE "user"]

\* POST /api/auth/register: the InsertUser handed to createUser, role forced to 'user'
RegisterInsertUser(body, hashedPassword) ==
    [username |-> publicRegistrationParsed(body).username,
     password |-> hashedPassword,
     role |-> "user"]

\* POST /api/auth/register, from the result of bcrypt.hash
RegisterFinish(p, salt) ==
    /\ p.kind = "register"
    /\ Resume(p)
    /\ LET hashedPassword == BcryptHash(p.parsed.password, saltRounds, salt)
           store == createUser(RegisterInsertUser(p.req, hashedPassword))
       IN  /\ users' = store
           /\ resp' = Exchange("register", p.req, 201,
                          [user |-> sanitizeUser(store[Len(store)]),
                           message |-> "Account created successfully. Please wait for admin approval."])
    /\ UNCHANGED <<commands, issued, now, probe, env, preferences, client>>

\* the answer of a gate that did not call next(): the handler never ran, and nothing
\* but the Authorization header was read
GateDenial(route, req, gate) ==
    /\ resp' = Exchange(route, [authorization |-> req.authorization], gate.code, gate.body)
    /\ UNCHANGED <<users, commands, inflight, issued, now, probe, env, preferences, client>>

\* POST /api/admin/create-user, up to `await bcrypt.hash`
AdminCreateUserStart(hdr, body) ==
    LET gate == AdminGate(hdr, now)
        req == [authorization |-> hdr, body |-> body]
    IN  IF ~gate.next THEN GateDenial("admin-create-user", req, gate)
        ELSE IF ~adminUserCreationSchema(body)
            THEN /\ resp' = Exchange("admin-create-user", req, 400, [error |-> "Invalid request"])
                 /\ UNCHANGED <<users, commands, inflight, issued, now, probe, env, preferences, client>>
        ELSE IF getUserByUsername(body.username) # {}
            THEN /\ resp' = Exchange("admin-create-user", req, 409,
                                [error |-> "Username already exists"])
                 /\ UNCHANGED <<users, commands, inflight, issued, now, probe, env, preferences, client>>
        ELSE /\ Len(users) + PendingCreates < MaxUsers
             /\ Suspend([kind |-> "admin-create-user", req |-> req,
                         parsed |-> adminUserCreationParsed(body)])
             /\ UNCHANGED <<users, commands, issued, now, probe, env, preferences, client>>

\* POST /api/admin/create-user, from the result of bcrypt.hash
AdminCreateUserFinish(p, salt) ==
    /\ p.kind = "admin-create-user"
    /\ Resume(p)
    /\ LET hashedPassword == BcryptHash(p.parsed.password, saltRounds, salt)
           store == createUser([p.parsed EXCEPT !.password = hashedPassword])
       IN  /\ users' = store
           /\ resp' = Exchange("admin-create-user", p.req, 201,
                          [user |-> sanitizeUser(store[Len(store)])])
    /\ UNCHANGED <<commands, issued, now, probe, env, preferences, client>>

\* PUT /api/admin/users/:id/status
AdminSetStatus(hdr, id, status) ==
    LET gate == AdminGate(hdr, now)
        req == [authorization |-> hdr, id |-> id, body |-> [status |-> status]]
        store == updateUser(id, [status |-> status])
    IN  IF ~gate.next THEN GateDenial("admin-set-status", req, gate)
        ELSE IF status \notin {"approved", "rejected", "pending"}
            THEN /\ resp' = Exchange("admin-set-status", req, 400, [error |-> "Invalid status"])
                 /\ UNCHANGED <<users, commands, inflight, issued, now, probe, env, preferences, client>>
        ELSE IF getUser(id) = {}
            THEN /\ resp' = Exchange("admin-set-status", req, 404, [error |-> "User not found"])
                 /\ UNCHANGED <<users, commands, inflight, issued, now, probe, env, preferences, client>>
        ELSE /\ users' = store
             /\ resp' = Exchange("admin-set-status", req, 200, [user |-> sanitizeUser(store[id])])
             /\ UNCHANGED <<commands, inflight, issued, now, probe, env, preferences, client>>

\* GET /api/admin/users
AdminListUsers(hdr) ==
    LET gate == AdminGate(hdr, now)
        req == [authorization |-> hdr]
    IN  IF ~gate.next THEN GateDenial("admin-list-users", req, gate)
        ELSE /\ resp' = Exchange("admin-list-users", req, 200,
                            [users |-> sanitizeUsers(getAllUsers)])
             /\ UNCHANGED <<users, commands, inflight, issued, now, probe, env, preferences, client>>

\* insertUserSchema.partial(): username, password and role, each optional and a string
insertUserSchemaPartial(body) ==
    /\ Has(body, "username") => body.username # Null
    /\ Has(body, "password") => body.password # Null

\* what insertUserSchema.partial().parse keeps of the body
insertUserPartialParsed(body) ==
    [f \in DOMAIN body \cap {"username", "password", "role"} |-> body[f]]

\* PUT /api/admin/users/:id, the part after the password (if any) was hashed
AdminUpdateUserApply(req, updates) ==
    IF getUser(req.id) = {}
        THEN /\ resp' = Exchange("admin-update-user", req, 404, [error |-> "User not found"])
             /\ UNCHANGED users
        ELSE LET store == updateUser(req.id, updates) IN
             /\ users' = store
             /\ resp' = Exchange("admin-update-user", req, 200,
                            [user |-> sanitizeUser(store[req.id])])

\* PUT /api/admin/users/:id, up to `await bcrypt.hash` when a password is given
AdminUpdateUserStart(hdr, id, body) ==
    LET gate == AdminGate(hdr, now)
        req == [authorization |-> hdr, id |-> id, body |-> body]
        updates == insertUserPartialParsed(body)
    IN  IF ~gate.next THEN GateDenial("admin-update-user", req, gate)
        ELSE IF ~insertUserSchemaPartial(body)
            THEN /\ resp' = Exchange("admin-update-user", req, 400, [error |-> "Invalid request"])
                 /\ UNCHANGED <<users, commands, inflight, issued, now, probe, env, preferences, client>>
        ELSE IF Has(updates, "password") /\ ~Falsy(updates.password)
            THEN /\ Suspend([kind |-> "admin-update-user", req |-> req, parsed |-> updates])
                 /\ UNCHANGED <<users, commands, issued, now, probe, env, preferences, client>>
        ELSE /\ AdminUpdateUserApply(req, updates)
             /\ UNCHANGED <<commands, inflight, issued, now, probe, env, preferences, client>>

\* PUT /api/admin/users/:id, from the result of bcrypt.hash
AdminUpdateUserFinish(p, salt) ==
    /\ p.kind = "admin-update-user"
    /\ Resume(p)
    /\ AdminUpdateUserApply(p.req,
           [p.parsed EXCEPT !.password = BcryptHash(p.parsed.password, saltRounds, salt)])
    /\ UNCHANGED <<commands, issued, now, probe, env, preferences, client>>

\* GET /api/admin/commands
AdminListCommands(hdr) ==
    LET gate == AdminGate(hdr, now)
        req == [authorization |-> hdr]
    IN  IF ~gate.next THEN GateDenial("admin-list-commands", req, gate)
        ELSE /\ resp' = Exchange("admin-list-commands", req, 200, [commands |-> getAllCommands])
             /\ UNCHANGED <<users, commands, inflight, issued, now, probe, env, preferences, client>>

\* POST /api/admin/commands
AdminCreateCommand(hdr, body) ==
    LET gate == AdminGate(hdr, now)
        req == [authorization |-> hdr, body |-> body]
        store == createCommand(body)
    IN  IF ~gate.next THEN GateDenial("admin-create-command", req, gate)
        ELSE IF ~insertCommandSchema(body)
            THEN /\ resp' = Exchange("admin-create-command", req, 400, [error |-> "Invalid request"])
                 /\ UNCHANGED <<users, commands, inflight, issued, now, probe, env, preferences, client>>
        ELSE /\ Len(commands) < MaxCommands
             /\ commands' = store
             /\ resp' = Exchange("admin-create-command", req, 201,
                            [command |-> store[Len(store)]])
             /\ UNCHANGED <<users, inflight, issued, now, probe, env, preferences, client>>

\* PUT /api/admin/commands/:id, .../publish and .../unpublish: updateCommand with the
\* parsed body, { publishedToUsers: true } or { publishedToUsers: false }
AdminUpdateCommandWith(route, hdr, id, updates) ==
    LET gate == AdminGate(hdr, now)
        req == [authorization |-> hdr, id |-> id]
        store == updateCommand(id, updates)
    IN  IF ~gate.next THEN GateDenial(route, req, gate)
        ELSE IF getCommand(id) = {}
            THEN /\ resp' = Exchange(route, req, 404, [error |-> "Command not found"])
                 /\ UNCHANGED <<users, commands, inflight, issued, now, probe, env, preferences, client>>
        ELSE /\ commands' = store
             /\ resp' = Exchange(route, req, 200, [command |-> store[id]])
             /\ UNCHANGED <<users, inflight, issued, now, probe, env, preferences, client>>

AdminUpdateCommand(hdr, id, body) ==
    AdminUpdateCommandWith("admin-update-command", hdr, id,
        [f \in DOMAIN body \cap {"name", "isActive", "publishedToUsers"} |-> body[f]])

AdminPublishCommand(hdr, id) ==
    AdminUpdateCommandWith("admin-publish-command", hdr, id, [publishedToUsers |-> TRUE])

AdminUnpublishCommand(hdr, id) ==
    AdminUpdateCommandWith("admin-unpublish-command", hdr, id, [publishedToUsers |-> FALSE])

\* DELETE /api/admin/commands/:id
AdminDeleteCommand(hdr, id) ==
    LET gate == AdminGate(hdr, now)
        req == [authorization |-> hdr, id |-> id]
    IN  IF ~gate.next THEN GateDenial("admin-delete-command", req, gate)
        ELSE IF getCommand(id) = {}
            THEN /\ resp' = Exchange("admin-delete-command", req, 404,
                                [error |-> "Command not found"])
                 /\ UNCHANGED <<users, commands, inflight, issued, now, probe, env, preferences, client>>
        ELSE /\ commands' = deleteCommand(id)
             /\ resp' = Exchange("admin-delete-command", req, 200, [success |-> TRUE])
             /\ UNCHANGED <<users, inflight, issued, now, probe, env, preferences, client>>

\* GET /api/admin/stats
AdminStats(hdr) ==
    LET gate == AdminGate(hdr, now)
        req == [authorization |-> hdr]
    IN  IF ~gate.next THEN GateDenial("admin-stats", req, gate)
        ELSE /\ resp' = Exchange("admin-stats", req, 200, [stats |-> getAdminStatistics])
             /\ UNCHANGED <<users, commands, inflight, issued, now, probe, env, preferences, client>>

\* GET /api/auth/me
AuthMe(hdr) ==
    LET gate == authenticateToken(hdr, now)
        req == [authorization |-> hdr]
        found == getUser(gate.user.id)
    IN  IF ~gate.next THEN GateDenial("auth-me", req, gate)
        ELSE /\ resp' = IF found = {}
                            THEN Exchange("auth-me", req, 404, [error |-> "User not found"])
                            ELSE Exchange("auth-me", req, 200,
                                     [user |-> sanitizeUser(CHOOSE u \in found : TRUE)])
             /\ UNCHANGED <<users, commands, inflight, issued, now, probe, env, preferences, client>>

\* GET /api/user/settings
GetUserSettings(hdr) ==
    LET gate == authenticateToken(hdr, now)
        req == [authorization |-> hdr]
        found == getUser(gate.user.id)
    IN  IF ~gate.next THEN GateDenial("user-settings", req, gate)
        ELSE /\ resp' = IF found = {}
                            THEN Exchange("user-settings", req, 404, [error |-> "User not found"])
                            ELSE LET user == CHOOSE u \in found : TRUE IN
                                 Exchange("user-settings", req, 200,
                                     [hasApiKey |-> ~Falsy(user.openaiApiKey),
                                      username |-> user.username])
             /\ UNCHANGED <<users, commands, inflight, issued, now, probe, env, preferences, client>>

\* updateApiKeySchema
updateApiKeySchema(body) == IsStringMin(body, "apiKey", 1)

\* PUT /api/user/api-key, up to `await testOpenAI.models.list()`
PutApiKeyStart(hdr, body) ==
    LET gate == authenticateToken(hdr, now)
        req == [authorization |-> hdr, body |-> body]
    IN  IF ~gate.next THEN GateDenial("put-api-key", req, gate)
        ELSE IF ~updateApiKeySchema(body)
            THEN /\ resp' = Exchange("put-api-key", req, 400, [error |-> "Invalid request data"])
                 /\ UNCHANGED <<users, commands, inflight, issued, now, probe, env, preferences, client>>
        ELSE /\ Suspend([kind |-> "put-api-key", req |-> req, caller |-> gate.user])
             /\ UNCHANGED <<users, commands, issued, now, probe, env, preferences, client>>

\* a PUT /api/user/api-key that stores the key whatever the provider answered
PutApiKeyFinish_storesUnvalidated(p, accepted, salt, iv) ==
    /\ p.kind = "put-api-key"
    /\ Resume(p)
    /\ users' = updateUser(p.caller.id,
                     [openaiApiKey |-> encryptApiKey(p.req.body.apiKey, salt, iv)])
    /\ resp' = IF accepted
                   THEN Exchange("put-api-key", p.req, 200, [success |-> TRUE, hasApiKey |-> TRUE])
                   ELSE Exchange("put-api-key", p.req, 400,
                            [error |-> "Invalid OpenAI API key. Please check and try again."])
    /\ UNCHANGED <<commands, issued, now, probe, env, preferences, client>>

\* PUT /api/user/api-key, from the provider's answer to the test request; `accepted`
\* is whether the provider accepted the key
PutApiKeyFinish(p, accepted, salt, iv) ==
    /\ p.kind = "put-api-key"
    /\ Resume(p)
    /\ IF ~accepted
           THEN /\ resp' = Exchange("put-api-key", p.req, 400,
                               [error |-> "Invalid OpenAI API key. Please check and try again."])
                /\ UNCHANGED users
           ELSE /\ users' = updateUser(p.caller.id,
                                [openaiApiKey |-> encryptApiKey(p.req.body.apiKey, salt, iv)])
                /\ resp' = Exchange("put-api-key", p.req, 200,
                               [success |-> TRUE, hasApiKey |-> TRUE])
    /\ UNCHANGED <<commands, issued, now, probe, env, preferences, client>>

\* DELETE /api/user/api-key
DeleteApiKey(hdr) ==
    LET gate == authenticateToken(hdr, now)
        req == [authorization |-> hdr]
    IN  IF ~gate.next THEN GateDenial("delete-api-key", req, gate)
        ELSE /\ users' = updateUser(gate.user.id, [openaiApiKey |-> Null])
             /\ resp' = Exchange("delete-api-key", req, 200,
                            [success |-> TRUE, hasApiKey |-> FALSE])
             /\ UNCHANGED <<commands, inflight, issued, now, probe, env, preferences, client>>

\* GET /api/commands
GetCommands(hdr) ==
    LET gate == authenticateToken(hdr, now)
        req == [authorization |-> hdr]
    IN  IF ~gate.next THEN GateDenial("commands", req, gate)
        ELSE /\ resp' = Exchange("commands", req, 200, [commands |-> getPublishedCommands])
             /\ UNCHANGED <<users, commands, inflight, issued, now, probe, env, preferences, client>>

\* GET /api/user/commands-with-preferences: a published command with the caller's
\* preference for it, visible and new by default
CommandWithPreference(command, userId) ==
    LET userPref == getUserCommandPreference(userId, command.id) IN
    [id |-> command.id, name |-> command.name, isActive |-> command.isActive,
     publishedToUsers |-> command.publishedToUsers,
     isVisible |-> \A q \in userPref : q.isVisible,
     isNew |-> \A q \in userPref : ~q.hasSeenNewBadge]

GetCommandsWithPreferences(hdr) ==
    LET gate == authenticateToken(hdr, now)
        req == [authorization |-> hdr]
        publishedCommands == getPublishedCommands
    IN  IF ~gate.next THEN GateDenial("commands-with-preferences", req, gate)
        ELSE /\ resp' = Exchange("commands-with-preferences", req, 200,
                            [commands |-> [i \in 1..Len(publishedCommands) |->
                                CommandWithPreference(publishedCommands[i], gate.user.id)]])
             /\ UNCHANGED <<users, commands, inflight, issued, now, probe, env, preferences, client>>

\* commandPreferenceSchema
commandPreferenceSchema(body) ==
    /\ Has(body, "commandId")
    /\ Has(body, "isVisible") /\ body.isVisible \in BOOLEAN
    /\ Has(body, "hasSeenNewBadge") => body.hasSeenNewBadge \in BOOLEAN

\* PUT /api/user/command-preferences
PutCommandPreference(hdr, body) ==
    LET gate == authenticateToken(hdr, now)
        req == [authorization |-> hdr, body |-> body]
        command == getCommand(body.commandId)
        existing == getUserCommandPreference(gate.user.id, body.commandId)
        updates == [f \in DOMAIN body \cap {"isVisible", "hasSeenNewBadge"} |-> body[f]]
        newPreference ==
            [userId |-> gate.user.id, commandId |-> body.commandId,
             isVisible |-> body.isVisible,
             hasSeenNewBadge |-> IF Has(body, "hasSeenNewBadge")
                                     THEN body.hasSeenNewBadge ELSE FALSE]
    IN  IF ~gate.next THEN GateDenial("put-command-preference", req, gate)
        ELSE /\ IF ~commandPreferenceSchema(body)
                    THEN /\ resp' = Exchange("put-command-preference", req, 400,
                                        [error |-> "Invalid request data"])
                         /\ UNCHANGED preferences
                ELSE IF command = {}
                    THEN /\ resp' = Exchange("put-command-preference", req, 404,
                                        [error |-> "Command not found"])
                         /\ UNCHANGED preferences
                ELSE IF \E c \in command : ~c.publishedToUsers \/ ~c.isActive
                    THEN /\ resp' = Exchange("put-command-preference", req, 403,
                                        [error |-> "Command is not available to users"])
                         /\ UNCHANGED preferences
                ELSE IF existing # {}
                    THEN /\ preferences' =
                              updateUserCommandPreference(gate.user.id, body.commandId, updates)
                         /\ resp' = Exchange("put-command-preference", req, 200,
                                        [preference |-> Merge(CHOOSE q \in existing : TRUE, updates)])
                ELSE /\ preferences' = setUserCommandPreference(newPreference)
                     /\ resp' = Exchange("put-command-preference", req, 200,
                                    [preference |-> newPreference])
             /\ UNCHANGED <<users, commands, inflight, issued, now, probe, env, client>>

(***************************************************************************)
(* Spec: the account lifecycle -- registration, approval and rejection by  *)
(* the administrator, login.                                               *)
(***************************************************************************)
LoginBodies ==
    {[username |-> U_admin, password |-> P_admin123],
     [username |-> U_alice, password |-> P_strong],
     [username |-> U_alice, password |-> P_strongWs],
     [username |-> U_alice, password |-> <<>>],
     [username |-> U_bob, password |-> P_strong],
     [password |-> P_strong]}

RegisterBodies ==
    {[username |-> U_alice, password |-> P_strong],
     [username |-> U_alice, password |-> P_strong, role |-> "admin", status |-> "approved"],
     [username |-> U_admin, password |-> P_strong],
     [username |-> U_al, password |-> P_strong],
     [username |-> U_alice, password |-> P_weak]}

AdminCreateBodies ==
    {[username |-> U_bob, password |-> P_strong, role |-> "admin"],
     [username |-> U_bob, password |-> P_strong, role |-> "user"],
     [username |-> U_bob, password |-> P_strong],
     [username |-> U_bob, password |-> P_strong, role |-> "root"],
     [username |-> U_admin, password |-> P_strong, role |-> "admin"]}

StatusValues == {"approved", "rejected", "pending", "banned"}

\* the ids an administrator names: the accounts other than the seeded one, and an unknown id
TargetIds == 2..(MaxUsers + 1)

\* what follows the Authorization header in a request to an /api/admin route: a
\* request the gate denies is not read further, so one representative stands for all
AdminInput(hdr, inputs) ==
    IF AdminGate(hdr, now).next THEN inputs ELSE {CHOOSE x \in inputs : TRUE}

Next ==
    \/ \E body \in LoginBodies : LoginStart(body)
    \/ \E p \in Pending("login") : LoginFinish(p)
    \/ \E body \in RegisterBodies : RegisterStart(body)
    \/ \E p \in Pending("register"), salt \in HandlerSalts : RegisterFinish(p, salt)
    \/ \E hdr \in ClientHeaders :
            \E id \in AdminInput(hdr, TargetIds), status \in AdminInput(hdr, StatusValues) :
                AdminSetStatus(hdr, id, status)

Spec == Init /\ [][Next]_vars

(***************************************************************************)
(* SpecProvision: accounts are created and log in, and no administrator    *)
(* ever changes a status.                                                  *)
(***************************************************************************)
NextProvision ==
    \/ \E body \in LoginBodies : LoginStart(body)
    \/ \E p \in Pending("login") : LoginFinish(p)
    \/ \E body \in RegisterBodies : RegisterStart(body)
    \/ \E p \in Pending("register"), salt \in HandlerSalts : RegisterFinish(p, salt)
    \/ \E hdr \in ClientHeaders : \E body \in AdminInput(hdr, AdminCreateBodies) :
            AdminCreateUserStart(hdr, body)
    \/ \E p \in Pending("admin-create-user"), salt \in HandlerSalts :
            AdminCreateUserFinish(p, salt)

SpecProvision == Init /\ [][NextProvision]_vars

(***************************************************************************)
(* Properties of the account lifecycle.                                    *)
(***************************************************************************)
\* the exchange in `resp` is a login that returned a token
LoginReturnedToken == resp.route = "login" /\ Has(resp.body, "token")

\* the submitted password verifies against the stored hash of the named account
PasswordVerifies(req) ==
    /\ loginSchema(req)
    /\ \E u \in getUserByUsername(req.username) : BcryptCompare(req.password, u.password)

\* C1: whenever a login returns a token, the stored status of that account is
\* `approved` at that moment and the token embeds status `approved`, whatever
\* status updates were interleaved with the login.
C1_TokenOnlyWhileApproved ==
    LoginReturnedToken =>
        /\ \E u \in getUser(resp.body.user.id) : u.status = "approved"
        /\ resp.body.token.payload.status = "approved"

\* every answer of the login route: a token only with a verifying password, a wrong
\* password only ever answered 400 or 401 without a token
LoginAnswerSound ==
    resp.route = "login" =>
        /\ resp.code \in {200, 400, 401, 403}
        /\ Has(resp.body, "token") <=> resp.code = 200
        /\ resp.code = 200 =>
              /\ PasswordVerifies(resp.req)
              /\ resp.body.user.username = resp.req.username
              /\ resp.body.token.payload.username = resp.req.username
        /\ ~PasswordVerifies(resp.req) => resp.code \in {400, 401}

C21_FailedLoginGeneric ==
    resp.route = "login" =>
        /\ (loginSchema(resp.req) /\ ~PasswordVerifies(resp.req)) =>
              (resp.code = 401 /\ resp.body = [error |-> "Invalid credentials"])
        /\ ~loginSchema(resp.req) =>
              (resp.code = 400 /\ resp.body = [error |-> "Invalid request"])

\* a login naming a rejected account with a wrong password was answered as a login
\* naming no account is
C21_Witness ==
    /\ resp.route = "login" /\ resp.code = 401
    /\ resp.body = [error |-> "Invalid credentials"]
    /\ loginSchema(resp.req)
    /\ \E u \in getUserByUsername(resp.req.username) :
          u.status = "rejected" /\ ~BcryptCompare(resp.req.password, u.password)

C4_RegistrationForcesUserPending ==
    (resp.route = "register" /\ resp.code = 201) =>
        /\ resp.body.user.role = "user" /\ resp.body.user.status = "pending"
        /\ \E u \in getUser(resp.body.user.id) :
              u.username = resp.req.username /\ u.role = "user" /\ u.status = "pending"

\* a registration whose body carried role admin and status approved created an account
C4_Witness ==
    /\ resp.route = "register" /\ resp.code = 201
    /\ Has(resp.req, "role") /\ resp.req.role = "admin"
    /\ Has(resp.req, "status") /\ resp.req.status = "approved"

\* the step finishes the suspended login `p`
FinishesLogin(p) == p.kind = "login" /\ BagIn(p, inflight) /\ inflight' = inflight (-) SetToBag({p})

\* C10 as stated: every login attempt against an existing account whose status is
\* pending or rejected is answered 403 with the account's current status, never
\* with a token and never with a generic authentication failure.
C10_UnapprovedAlways403 ==
    (resp.route = "login" /\ loginSchema(resp.req)) =>
        \A u \in getUserByUsername(resp.req.username) :
            u.status \in {"pending", "rejected"} =>
                /\ resp.code = 403
                /\ Has(resp.body, "status") /\ resp.body.status = u.status

\* C10: a login that presents the right password for an account whose status, as
\* the handler read it, is pending or rejected is answered 403 with that status
\* and without a token, and changes nothing; with a wrong password the answer is
\* the generic 401 whatever the status.
C10_UnapprovedWithPassword403 ==
    [][\A p \in Pending("login") :
          (FinishesLogin(p) /\ p.user.status \in {"pending", "rejected"}) =>
              /\ resp'.route = "login" /\ users' = users /\ issued' = issued
              /\ ~Has(resp'.body, "token")
              /\ IF BcryptCompare(p.req.password, p.user.password)
                     THEN /\ resp'.code = 403
                          /\ resp'.body.status = p.user.status
                     ELSE /\ resp'.code = 401
                          /\ resp'.body = [error |-> "Invalid credentials"]]_vars

\* a login with the right password on an account an administrator rejected was
\* answered 403 carrying `rejected`
C10_Witness ==
    /\ resp.route = "login" /\ resp.code = 403 /\ resp.body.status = "rejected"
    /\ \E u \in getUserByUsername(resp.req.username) :
          u.status = "rejected" /\ BcryptCompare(resp.req.password, u.password)

(***************************************************************************)
(* Properties of accounts that never go through an approval step.          *)
(***************************************************************************)
\* C9: an account an administrator creates with role `admin` is `approved` as soon
\* as it is created, and a login with its password succeeds without any approval
\* step; one created with role `user`, or with no role, is `pending` (and a login
\* with its password is answered 403 pending).
C9_AdminCreatedStatus ==
    /\ (resp.route = "admin-create-user" /\ resp.code = 201) =>
          \E u \in getUser(resp.body.user.id) :
              /\ u.username = resp.req.body.username
              /\ resp.body.user.status = u.status /\ resp.body.user.role = u.role
              /\ IF Has(resp.req.body, "role") /\ resp.req.body.role = "admin"
                     THEN u.role = "admin" /\ u.status = "approved"
                     ELSE u.role = "user" /\ u.status = "pending"
    /\ (resp.route = "login" /\ PasswordVerifies(resp.req) /\ resp.req.username = U_bob) =>
          \E u \in getUserByUsername(U_bob) :
              IF u.role = "admin"
                  THEN resp.code = 200 /\ Has(resp.body, "token")
                  ELSE resp.code = 403 /\ resp.body.status = "pending"

\* an account created with role admin logged in, no status update having happened
C9_Witness ==
    /\ resp.route = "login" /\ resp.code = 200 /\ resp.req.username = U_bob
    /\ resp.body.user.role = "admin"

(***************************************************************************)
(* SpecGate: authenticateToken as a function of the Authorization header   *)
(* and the clock.  Tokens are signed for accounts of every role and        *)
(* status (generateToken itself checks nothing), time passes, and the gate *)
(* is given well-formed, malformed and forged headers.                     *)
(***************************************************************************)
\* the clock advances by half a token lifetime
TickHours == JWT_EXPIRES_IN \div 2

GateAccounts ==
    {[id |-> 2, username |-> U_alice, role |-> "user", status |-> st] :
        st \in {"approved", "pending", "rejected"}}
    \cup {[id |-> 1, username |-> U_admin, role |-> "admin", status |-> "approved"]}

\* a token signed with another key, one whose payload was edited after signing, and
\* one signed by this server for another audience
Forged(t) == [t EXCEPT !.sig.key = "attacker-key"]
Tampered(t) == [t EXCEPT !.payload.status = "approved"]
OtherAudience(t) ==
    JwtSign(Decoded(t), JWT_SECRET, "sarvatra-ai", "another-app", t.payload.iat)

TokenStrings == UNION {{t, Forged(t), Tampered(t), OtherAudience(t)} : t \in issued}

GateHeaders ==
    {NoHeader, Header(<<>>), Header(<<Word("Bearer")>>), Header(<<Word("Bearer"), Ws>>),
     Header(<<Word("Bearer"), Ws, Ws>>), Header(<<Word("Bearer"), Ws, Word("garbage")>>)}
    \cup {Bearer(t) : t \in TokenStrings}
    \cup UNION {{Header(<<Word("Bearer"), Ws, Ws, Tok(t)>>),
                 Header(<<Word("Bearer"), Tok(t)>>),
                 Header(<<Word("bearer"), Ws, Tok(t)>>),
                 Header(<<Word("Basic"), Ws, Tok(t)>>),
                 Header(<<Tok(t)>>),
                 Header(<<Ws, Word("Bearer"), Ws, Tok(t)>>),
                 Header(<<Word("Bearer"), Ws, Tok(t), Ws, Word("x")>>)} : t \in issued}

GateSign(account) ==
    /\ Cardinality(issued) < MaxTokens
    /\ issued' = issued \cup {generateToken(account, now)}
    /\ UNCHANGED <<users, commands, inflight, now, resp, probe, env, preferences, client>>

Tick ==
    /\ now < MaxTicks * TickHours
    /\ now' = now + TickHours
    /\ UNCHANGED <<users, commands, inflight, issued, resp, probe, env, preferences, client>>

GateCheck(hdr) ==
    /\ probe' = [fn |-> "authenticateToken", header |-> hdr, at |-> now,
                 result |-> authenticateToken(hdr, now)]
    /\ UNCHANGED <<users, commands, inflight, issued, now, resp, env, preferences, client>>

NextGate ==
    \/ \E account \in GateAccounts : GateSign(account)
    \/ Tick
    \/ \E hdr \in GateHeaders : GateCheck(hdr)

SpecGate == Init /\ [][NextGate]_vars

\* the strings a header of the form "Bearer", whitespace, string can carry: what is
\* left after the word and any non-empty run of whitespace
CarriedBy(hdr) ==
    IF ~hdr.present \/ hdr.lex = <<>> \/ hdr.lex[1] # Word("Bearer") THEN {}
    ELSE {SubSeq(hdr.lex, k + 1, Len(hdr.lex)) :
             k \in {k \in 2..(Len(hdr.lex) - 1) : \A j \in 2..k : hdr.lex[j] = Ws}}

\* the header carries exactly the token `t` after "Bearer" and whitespace
CarriesToken(hdr, t) == <<Tok(t)>> \in CarriedBy(hdr)

\* signed by this server for this audience, unaltered, and not yet expired at `at`
Genuine(t, at) ==
    /\ \E a \in GateAccounts, k \in 0..MaxTicks : t = generateToken(a, k * TickHours)
    /\ at < t.payload.iat + JWT_EXPIRES_IN

\* C3: authenticateToken admits a request, with req.user set from the token, if and
\* only if the header carries a Bearer token that verifies and embeds status
\* `approved`; otherwise it denies, in this order: no extractable token is 401 'No
\* token provided', an unverifiable token is 401 'Invalid token', a verifiable token
\* embedding `pending` or `rejected` is 403 carrying that status.
C3_GateAdmitsIffApprovedToken ==
    probe.fn = "authenticateToken" =>
        LET hdr == probe.header
            r == probe.result
            good == {t \in TokenStrings : CarriesToken(hdr, t) /\ Genuine(t, probe.at)}
        IN  /\ r.next <=> \E t \in good : t.payload.status = "approved"
            /\ r.next => \E t \in good : r.user = ReqUser(t.payload)
            /\ CarriedBy(hdr) = {} =>
                  r = Denied(401, [error |-> "Access denied. No token provided."])
            /\ (CarriedBy(hdr) # {} /\ good = {}) =>
                  r = Denied(401, [error |-> "Access denied. Invalid token."])
            /\ \A t \in good : t.payload.status \in {"pending", "rejected"} =>
                  r = Denied(403, [error |-> "Access denied. Account is not approved.",
                                   status |-> t.payload.status])

\* a genuine, unexpired token embedding status pending was answered 403 pending
C3_Witness ==
    /\ probe.fn = "authenticateToken"
    /\ \E t \in issued : /\ probe.header = Bearer(t) /\ Genuine(t, probe.at)
                         /\ t.payload.status = "pending"
    /\ probe.result.code = 403 /\ probe.result.body.status = "pending"

(***************************************************************************)
(* SpecCipher: encryptApiKey applied to a plaintext key with the salt and  *)
(* the IV it drew, then decryptApiKey applied to the blob it returned.     *)
(***************************************************************************)
\* code units of the keys: 'k', e-acute, the euro sign, and the two halves of U+1F600
KeyAlphabet == {107, 233, 8364, 55357, 56832}

RECURSIVE StringsUpTo(_)
StringsUpTo(n) ==
    IF n = 0 THEN {<<>>}
    ELSE LET shorter == StringsUpTo(n - 1) IN
         shorter \cup {Append(s, c) : s \in {t \in shorter : Len(t) = n - 1}, c \in KeyAlphabet}

PlaintextKeys == StringsUpTo(MaxKeyLen)

\* no unpaired UTF-16 surrogate
WellFormed(s) ==
    \A i \in 1..Len(s) :
        /\ IsHighSurrogate(s[i]) => (i < Len(s) /\ IsLowSurrogate(s[i + 1]))
        /\ IsLowSurrogate(s[i]) => (i > 1 /\ IsHighSurrogate(s[i - 1]))

CipherEncrypt(apiKey, salt, iv) ==
    /\ probe = NoProbe
    /\ probe' = [fn |-> "encryptApiKey", apiKey |-> apiKey,
                 blob |-> encryptApiKey(apiKey, salt, iv), result |-> DecryptError]
    /\ UNCHANGED <<users, commands, inflight, issued, now, resp, env, preferences, client>>

CipherDecrypt ==
    /\ probe.fn = "encryptApiKey"
    /\ probe' = [probe EXCEPT !.fn = "decryptApiKey", !.result = decryptApiKey(probe.blob)]
    /\ UNCHANGED <<users, commands, inflight, issued, now, resp, env, preferences, client>>

NextCipher ==
    \/ \E apiKey \in PlaintextKeys, salt \in RandomBytes(SALT_LEN), iv \in RandomBytes(IV_LEN) :
            CipherEncrypt(apiKey, salt, iv)
    \/ CipherDecrypt

SpecCipher == Init /\ [][NextCipher]_vars

\* C8 as stated: for every plaintext key K, the empty string included, and every salt
\* and IV drawn, decryptApiKey(encryptApiKey(K)) returns exactly K.
C8_RoundTripEveryKey ==
    probe.fn = "decryptApiKey" => (probe.result.ok /\ probe.result.value = probe.apiKey)

\* C8: for every plaintext key K that is a well-formed string (no unpaired UTF-16
\* surrogate), the empty string included, and every salt and IV drawn,
\* decryptApiKey(encryptApiKey(K)) returns exactly K; the blob has four
\* colon-separated hexadecimal parts.
C8_RoundTripWellFormedKey ==
    /\ probe.fn = "decryptApiKey" =>
          /\ probe.result.ok
          /\ WellFormed(probe.apiKey) => probe.result.value = probe.apiKey
    /\ probe.fn \in {"encryptApiKey", "decryptApiKey"} =>
          Len(Split(probe.blob, 58)) = 4

\* a key holding a character outside the BMP next to a multi-byte one came back intact
C8_Witness ==
    /\ probe.fn = "decryptApiKey"
    /\ \E k \in {<<55357, 56832>>, <<233, 8364>>} : probe.apiKey = k
    /\ probe.result.ok /\ probe.result.value = probe.apiKey

(***************************************************************************)
(* SpecAdmin: every /api/admin route, with the logins that produce the     *)
(* tokens of an administrator and of an approved standard account.         *)
(***************************************************************************)
AdminRoutes ==
    {"admin-list-users", "admin-create-user", "admin-set-status", "admin-update-user",
     "admin-list-commands", "admin-create-command", "admin-update-command",
     "admin-delete-command", "admin-publish-command", "admin-unpublish-command",
     "admin-stats"}

\* a token whose payload was edited to role admin after signing, and a token this
\* server signed a full lifetime ago
Escalated(t) == [t EXCEPT !.payload.role = "admin"]
Outdated(t) == generateToken(Decoded(t), now - JWT_EXPIRES_IN)

\* the headers every /api/admin route is sent: none, and each token issued
AdminSpecHeaders == ClientHeaders

\* headers carrying altered and outdated tokens
AdminSpecForgedHeaders ==
    {Bearer(Escalated(t)) : t \in {t \in issued : t.payload.role # "admin"}}
    \cup {Bearer(Outdated(t)) : t \in {t \in issued : t.payload.role = "admin"}}

AdminSpecLogins ==
    {[username |-> U_admin, password |-> P_admin123],
     [username |-> U_bob, password |-> P_strong]}

AdminSpecCreateBodies == {[username |-> U_bob, password |-> P_strong, role |-> "user"]}

AdminSpecUpdateBodies == {[role |-> "admin", password |-> P_weak], [username |-> Null]}

AdminSpecCommandBodies == {[name |-> "Translate", prompt |-> "Translate:"], [name |-> "Untitled"]}

NextAdmin ==
    \/ \E body \in AdminSpecLogins : LoginStart(body)
    \/ \E p \in Pending("login") : LoginFinish(p)
    \/ \E hdr \in AdminSpecHeaders \cup AdminSpecForgedHeaders : AdminListUsers(hdr)
    \/ \E hdr \in AdminSpecHeaders, body \in AdminSpecCreateBodies :
            AdminCreateUserStart(hdr, body)
    \/ \E p \in Pending("admin-create-user"), salt \in HandlerSalts :
            AdminCreateUserFinish(p, salt)
    \/ \E hdr \in AdminSpecHeaders :
            AdminSetStatus(hdr, 2, "approved")
    \/ \E hdr \in AdminSpecHeaders : \E body \in AdminInput(hdr, AdminSpecUpdateBodies) :
            AdminUpdateUserStart(hdr, 2, body)
    \/ \E p \in Pending("admin-update-user"), salt \in HandlerSalts :
            AdminUpdateUserFinish(p, salt)
    \/ \E hdr \in AdminSpecHeaders : AdminListCommands(hdr)
    \/ \E hdr \in AdminSpecHeaders : \E body \in AdminInput(hdr, AdminSpecCommandBodies) :
            AdminCreateCommand(hdr, body)
    \/ \E hdr \in AdminSpecHeaders : AdminUpdateCommand(hdr, 1, [name |-> "Brief"])
    \/ \E hdr \in AdminSpecHeaders : AdminPublishCommand(hdr, 1)
    \/ \E hdr \in AdminSpecHeaders : AdminUnpublishCommand(hdr, 1)
    \/ \E hdr \in AdminSpecHeaders : AdminDeleteCommand(hdr, 1)
    \/ \E hdr \in AdminSpecHeaders : AdminStats(hdr)

SpecAdmin == Init /\ [][NextAdmin]_vars

\* the tokens the header carries that this server signed for an approved administrator
CarriedAdminTokens(hdr) ==
    {t \in issued : /\ CarriesToken(hdr, t)
                    /\ t.payload.status = "approved" /\ t.payload.role = "admin"}

\* the tokens the header carries that this server signed and that have not expired
CarriedFreshTokens(hdr) == {t \in issued : CarriesToken(hdr, t) /\ now < t.payload.exp}

\* requireAdmin, for a request without req.user and for the req.user of every token
\* issued: 401 without an authenticated user, 403 echoing the role of a caller that
\* is not an administrator, next() otherwise
RequireAdminAnswer ==
    \A user \in {NoUser} \cup {ReqUser(t.payload) : t \in issued} :
        LET r == requireAdmin(user) IN
        IF ~user.set
            THEN r = Denied(401, [error |-> "Access denied. Authentication required."])
        ELSE IF user.role # "admin"
            THEN r = Denied(403, [error |-> "Access denied. Admin privileges required.",
                                  userRole |-> user.role])
        ELSE r.next /\ r.user = user

\* one step of an /api/admin route: a handler is entered, and an answer other than a
\* denial is given, only for a request carrying a token signed for an approved
\* administrator (unexpired when the gate ran); a denied request changes nothing
\* and is answered from the header alone
AdminStepGuarded ==
    /\ \A p \in BagToSet(inflight') :
          (p.kind \in {"admin-create-user", "admin-update-user"}
              /\ CopiesIn(p, inflight') > CopiesIn(p, inflight)) =>
                  \E t \in CarriedAdminTokens(p.req.authorization) : now < t.payload.exp
    /\ resp'.route \in AdminRoutes =>
          LET hdr == resp'.req.authorization
              resumed == inflight' # inflight
              authorized == \E t \in CarriedAdminTokens(hdr) : resumed \/ now < t.payload.exp
          IN  /\ resp'.code \notin {401, 403} => authorized
              /\ ~authorized =>
                    /\ users' = users /\ commands' = commands /\ inflight' = inflight
                    /\ resp'.code \in {401, 403}
                    /\ DOMAIN resp'.req = {"authorization"}
                    /\ DOMAIN resp'.body \subseteq {"error", "status", "userRole"}
                    /\ \A t \in CarriedFreshTokens(hdr) :
                          t.payload.status = "approved" =>
                              /\ resp'.code = 403
                              /\ resp'.body.userRole = t.payload.role

\* C5: every /api/admin operation reads or changes the store only when the request
\* carries a verifiable token whose embedded status is `approved` and whose embedded
\* role is `admin`; requireAdmin answers 401 when no authenticated user is attached
\* and 403 echoing the caller's role when the role is not `admin`.
C5_AdminRoutesGuarded ==
    /\ []RequireAdminAnswer
    /\ [][AdminStepGuarded]_vars

\* an approved standard account's own token was refused the list of accounts with a
\* 403 echoing its role
C5_Witness ==
    /\ resp.route = "admin-list-users" /\ resp.code = 403
    /\ \E t \in issued : /\ resp.req.authorization = Bearer(t)
                         /\ t.payload.role = "user" /\ t.payload.status = "approved"
    /\ resp.body.userRole = "user"

(***************************************************************************)
(* SpecAccounts: the routes that return account objects and the routes     *)
(* that read or write an account's credential.                             *)
(***************************************************************************)
K_sk == <<115, 107, 45, 49>>                                     \* "sk-1"

AccountsLogins ==
    {[username |-> U_admin, password |-> P_admin123],
     [username |-> U_alice, password |-> P_strong]}

\* bodies that also try to set the credential field
AccountsRegisterBodies == {[username |-> U_alice, password |-> P_strong, openaiApiKey |-> K_sk]}

AccountsCreateBodies ==
    {[username |-> U_alice, password |-> P_strong, role |-> "user", openaiApiKey |-> K_sk]}

AccountsUpdateBodies == {[password |-> P_weak, openaiApiKey |-> K_sk]}

ApiKeyBodies == {[apiKey |-> K_sk], [apiKey |-> <<>>]}

\* authenticateToken alone admitted the request
UserInput(hdr, inputs) ==
    IF authenticateToken(hdr, now).next THEN inputs ELSE {CHOOSE x \in inputs : TRUE}

NextAccounts ==
    \/ \E body \in AccountsLogins : LoginStart(body)
    \/ \E p \in Pending("login") : LoginFinish(p)
    \/ \E body \in AccountsRegisterBodies : RegisterStart(body)
    \/ \E p \in Pending("register"), salt \in HandlerSalts : RegisterFinish(p, salt)
    \/ \E hdr \in ClientHeaders : AdminListUsers(hdr)
    \/ \E hdr \in ClientHeaders, body \in AccountsCreateBodies : AdminCreateUserStart(hdr, body)
    \/ \E p \in Pending("admin-create-user"), salt \in HandlerSalts :
            AdminCreateUserFinish(p, salt)
    \/ \E hdr \in ClientHeaders : AdminSetStatus(hdr, 2, "approved")
    \/ \E hdr \in ClientHeaders, body \in AccountsUpdateBodies :
            AdminUpdateUserStart(hdr, 2, body)
    \/ \E p \in Pending("admin-update-user"), salt \in HandlerSalts :
            AdminUpdateUserFinish(p, salt)
    \/ \E hdr \in ClientHeaders : AuthMe(hdr)
    \/ \E hdr \in ClientHeaders : GetUserSettings(hdr)
    \/ \E hdr \in ClientHeaders : \E body \in UserInput(hdr, ApiKeyBodies) :
            PutApiKeyStart(hdr, body)
    \/ \E p \in Pending("put-api-key"), accepted \in BOOLEAN :
            \E salt \in {CHOOSE x \in RandomBytes(SALT_LEN) : TRUE},
               iv \in {CHOOSE x \in RandomBytes(IV_LEN) : TRUE} :
                PutApiKeyFinish(p, accepted, salt, iv)
    \/ \E hdr \in ClientHeaders : DeleteApiKey(hdr)

SpecAccounts == Init /\ [][NextAccounts]_vars

AccountRoutes ==
    {"login", "register", "admin-list-users", "admin-create-user", "admin-set-status",
     "admin-update-user", "auth-me"}

\* the account objects of a response body
AccountsIn(body) ==
    (IF Has(body, "user") THEN {body.user} ELSE {})
    \cup (IF Has(body, "users") THEN {body.users[i] : i \in 1..Len(body.users)} ELSE {})

PublicAccountFields == {"id", "username", "role", "status", "createdAt", "lastLoginAt"}

\* C6: no response of a route that returns an account object (login, register, list
\* of accounts, admin create, admin status update, admin update, /api/auth/me)
\* contains the account's password hash or its encrypted credential: every account
\* object returned has exactly the public fields, every successful answer of these
\* routes carries such an object, and a token carries neither.
C6_ResponsesSanitized ==
    /\ \A a \in AccountsIn(resp.body) : DOMAIN a = PublicAccountFields
    /\ (resp.route \in AccountRoutes /\ resp.code \in {200, 201}) =>
          /\ AccountsIn(resp.body) # {}
          /\ DOMAIN resp.body \subseteq {"user", "users", "token", "expiresIn", "message"}
    /\ Has(resp.body, "token") =>
          DOMAIN resp.body.token.payload =
              {"id", "username", "role", "status", "iat", "exp", "iss", "aud"}

\* /api/auth/me returned the account of a caller that has a credential stored
C6_Witness ==
    /\ resp.route = "auth-me" /\ resp.code = 200
    /\ \E u \in getUser(resp.body.user.id) : u.openaiApiKey # Null /\ u.password # <<>>

\* the keys callers submit
SubmittedKeys == {body.apiKey : body \in {b \in ApiKeyBodies : updateApiKeySchema(b)}}

\* C7: the credential field of every account is null or a blob produced by
\* encryptApiKey (four hexadecimal parts that decrypt to a submitted key, never the
\* key itself), whatever registration, admin creation, admin update, credential
\* PUT/DELETE and login did; the credential routes answer with booleans only, GET
\* /api/user/settings with hasApiKey and the username.
C7_CredentialOnlyEncrypted ==
    /\ \A i \in 1..Len(users) :
          LET c == users[i].openaiApiKey IN
          c # Null =>
              /\ c \notin SubmittedKeys
              /\ Len(Split(c, 58)) = 4
              /\ decryptApiKey(c).ok /\ decryptApiKey(c).value \in SubmittedKeys
    /\ (resp.route = "user-settings" /\ resp.code = 200) =>
          /\ DOMAIN resp.body = {"hasApiKey", "username"}
          /\ \E u \in getUserByUsername(resp.body.username) :
                resp.body.hasApiKey = (u.openaiApiKey # Null)
    /\ (resp.route = "put-api-key" /\ resp.code = 200) =>
          resp.body = [success |-> TRUE, hasApiKey |-> TRUE]
    /\ (resp.route = "delete-api-key" /\ resp.code = 200) =>
          resp.body = [success |-> TRUE, hasApiKey |-> FALSE]

\* an account holds an encrypted credential and its settings say so
C7_Witness ==
    /\ resp.route = "user-settings" /\ resp.code = 200 /\ resp.body.hasApiKey
    /\ \E i \in 1..Len(users) : users[i].openaiApiKey # Null

(***************************************************************************)
(* SpecStale: tokens outlive changes to the account they were issued for.  *)
(* Accounts log in, an administrator then rejects or demotes them, time    *)
(* passes, and the gates are asked about the tokens issued before.         *)
(***************************************************************************)
StaleLogins ==
    {[username |-> U_admin, password |-> P_admin123],
     [username |-> U_alice, password |-> P_strong]}

StaleRegisterBodies == {[username |-> U_alice, password |-> P_strong]}

StaleStatusValues == {"approved", "rejected"}

\* a demotion
StaleUpdateBodies == {[role |-> "user"]}

\* the middleware chain authenticateToken, requireAdminOrSelf('id')
OwnerGate(authHeader, at, targetUserId) ==
    LET a == authenticateToken(authHeader, at) IN
    IF ~a.next THEN a ELSE requireAdminOrSelf(a.user, targetUserId)

NextStale ==
    \/ \E body \in StaleLogins :
            /\ now = 0 /\ \A t \in issued : t.payload.username # body.username
            /\ LoginStart(body)
    \/ \E p \in Pending("login") : LoginFinish(p)
    \/ \E body \in StaleRegisterBodies : RegisterStart(body)
    \/ \E p \in Pending("register"), salt \in HandlerSalts : RegisterFinish(p, salt)
    \/ \E hdr \in ClientHeaders :
            \E id \in AdminInput(hdr, 1..MaxUsers), status \in AdminInput(hdr, StaleStatusValues) :
                AdminSetStatus(hdr, id, status)
    \/ \E hdr \in ClientHeaders :
            \E id \in AdminInput(hdr, 1..MaxUsers), body \in StaleUpdateBodies :
                AdminUpdateUserStart(hdr, id, body)
    \/ Tick
    \/ \E hdr \in ClientHeaders : AuthMe(hdr)
    \/ \E hdr \in ClientHeaders : AdminListUsers(hdr)

SpecStale == Init /\ [][NextStale]_vars

\* what a gate chain answers for the token `t` at time `at`, told from the token
\* alone: `admits(payload)` is the policy of the second gate of the chain
TokenDecision(t, at, admits(_), refusal) ==
    IF at >= t.payload.iat + JWT_EXPIRES_IN
        THEN Denied(401, [error |-> "Access denied. Invalid token."])
    ELSE IF t.payload.status # "approved"
        THEN Denied(403, [error |-> "Access denied. Account is not approved.",
                          status |-> t.payload.status])
    ELSE IF admits(t.payload) THEN Admitted(ReqUser(t.payload))
    ELSE Denied(403, [error |-> refusal, userRole |-> t.payload.role])

\* C11: a change to an account's role or status made after a token was issued does
\* not change what the gates decide for that token: until it expires,
\* authenticateToken, requireAdmin and requireAdminOrSelf decide from the role and
\* status the token embeds, so a token issued while the account was approved (or an
\* administrator) is still admitted after the account is rejected (or demoted);
\* once expired it is refused.  Checked in every state for every token issued and
\* every owner parameter, and on the answers of GET /api/auth/me and GET
\* /api/admin/users.
C11_GatesDecideFromToken ==
    /\ \A t \in issued :
          /\ authenticateToken(Bearer(t), now) = TokenDecision(t, now, LAMBDA pl : TRUE, "")
          /\ AdminGate(Bearer(t), now) =
                TokenDecision(t, now, LAMBDA pl : pl.role = "admin",
                    "Access denied. Admin privileges required.")
          /\ \A target \in 0..MaxUsers :
                OwnerGate(Bearer(t), now, target) =
                    TokenDecision(t, now, LAMBDA pl : pl.role = "admin" \/ pl.id = target,
                        "Access denied. Admin privileges or self-access required.")
    /\ \A t \in issued :
          (resp.route \in {"auth-me", "admin-list-users"}
              /\ resp.req.authorization = Bearer(t) /\ now < t.payload.exp) =>
                  resp.code = IF resp.route = "admin-list-users" /\ t.payload.role # "admin"
                                  THEN 403 ELSE 200

\* the token of an administrator was given the list of accounts, and the list shows
\* the caller's own account rejected and demoted; the role-or-self gate admits the
\* same token on a route owned by another account
C11_Witness ==
    /\ resp.route = "admin-list-users" /\ resp.code = 200
    /\ \E t \in issued :
          /\ resp.req.authorization = Bearer(t)
          /\ t.payload.role = "admin" /\ t.payload.status = "approved"
          /\ resp.body.users[t.payload.id].status = "rejected"
          /\ resp.body.users[t.payload.id].role = "user"
          /\ \E target \in 1..MaxUsers :
                target # t.payload.id /\ OwnerGate(Bearer(t), now, target).next

(***************************************************************************)
(* SpecNames: every route that gives an account its username --            *)
(* self-registration, creation by an administrator, update by an           *)
(* administrator -- interleaved.                                           *)
(***************************************************************************)
NamesLogins ==
    {[username |-> U_admin, password |-> P_admin123],
     [username |-> U_alice, password |-> P_strong]}

NamesRegisterBodies ==
    {[username |-> U_alice, password |-> P_strong],
     [username |-> U_admin, password |-> P_strong]}

NamesCreateBodies ==
    {[username |-> U_alice, password |-> P_strong, role |-> "user"],
     [username |-> U_bob, password |-> P_strong, role |-> "user"],
     [username |-> U_admin, password |-> P_strong, role |-> "admin"]}

\* renames
NamesUpdateBodies == {[username |-> U_admin], [username |-> U_bob], [username |-> U_al]}

NextNames ==
    \/ \E body \in NamesLogins : issued = {} /\ LoginStart(body)
    \/ \E p \in Pending("login") : LoginFinish(p)
    \/ \E body \in NamesRegisterBodies : RegisterStart(body)
    \/ \E p \in Pending("register"), salt \in HandlerSalts : RegisterFinish(p, salt)
    \/ \E hdr \in ClientHeaders : \E body \in AdminInput(hdr, NamesCreateBodies) :
            AdminCreateUserStart(hdr, body)
    \/ \E p \in Pending("admin-create-user"), salt \in HandlerSalts :
            AdminCreateUserFinish(p, salt)
    \/ \E hdr \in ClientHeaders :
            \E id \in AdminInput(hdr, 1..(MaxUsers + 1)), body \in AdminInput(hdr, NamesUpdateBodies) :
                AdminUpdateUserStart(hdr, id, body)

SpecNames == Init /\ [][NextNames]_vars

\* C12: in every reachable state no two accounts have the same username, after any
\* sequence and interleaving of self-registration, creation by an administrator and
\* update by an administrator; a registration or creation naming an existing
\* username is answered 409 and creates nothing.
C12_UsernamesUnique ==
    /\ \A i, j \in 1..Len(users) : users[i].username = users[j].username => i = j
    /\ (resp.route \in {"register", "admin-create-user"} /\ resp.code = 201) =>
          Cardinality({i \in 1..Len(users) : users[i].username = resp.body.user.username}) = 1

(***************************************************************************)
(* SpecToken: generateToken applied to an account, then verifyToken        *)
(* applied, as time passes, to the token or to a string made from it; and  *)
(* requireAdminOrSelf applied to the payload.                              *)
(***************************************************************************)
U_quoted == <<97, 34, 92, 10>>                \* 'a', '"', '\', newline
U_unpaired == <<55357, 233, 47>>              \* a high surrogate alone, e-acute, '/'
U_astral == <<55357, 56832, 8364>>            \* U+1F600, the euro sign

TokenAccounts ==
    {[id |-> id, username |-> name, role |-> role, status |-> status] :
        id \in 1..MaxUsers, name \in {U_alice, U_quoted, U_unpaired, U_astral},
        role \in {"user", "admin"}, status \in {"approved", "pending", "rejected"}}

\* a token this server signed for another issuer tag
OtherIssuer(t) ==
    JwtSign(Decoded(t), JWT_SECRET, "another-issuer", "sarvatra-ai-users", t.payload.iat)

\* the strings made from a token: itself, signed with another key, edited after
\* signing, signed for another audience or issuer, and a string that is no JWT
Presented(t) ==
    {t, Forged(t), Tampered(t), Escalated(t),
     OtherAudience(t), OtherIssuer(t), NoJwt}

TokenSign(account) ==
    /\ probe = NoProbe
    /\ issued' = {generateToken(account, now)}
    /\ probe' = [fn |-> "generateToken", account |-> account, signedAt |-> now,
                 token |-> generateToken(account, now)]
    /\ UNCHANGED <<users, commands, inflight, now, resp, env, preferences, client>>

TokenVerify(presented) ==
    /\ probe.fn \in {"generateToken", "verifyToken"}
    /\ probe' = [fn |-> "verifyToken", account |-> probe.account, signedAt |-> probe.signedAt,
                 token |-> probe.token, presented |-> presented, at |-> now,
                 result |-> verifyTokenResult(presented, now)]
    /\ UNCHANGED <<users, commands, inflight, issued, now, resp, env, preferences, client>>

OwnerGateCheck(user, target) ==
    /\ probe.fn \in {"generateToken", "verifyToken"}
    /\ probe' = [fn |-> "requireAdminOrSelf", user |-> user, target |-> target,
                 result |-> requireAdminOrSelf(user, target)]
    /\ UNCHANGED <<users, commands, inflight, issued, now, resp, env, preferences, client>>

NextToken ==
    \/ \E account \in TokenAccounts : TokenSign(account)
    \/ Tick
    \/ \E t \in issued : \E presented \in Presented(t) : TokenVerify(presented)
    \/ \E user \in {NoUser} \cup {ReqUser(t.payload) : t \in issued}, target \in 0..MaxUsers :
            OwnerGateCheck(user, target)

SpecToken == Init /\ [][NextToken]_vars

\* C13: for every account, verifyToken applied before expiry to the token that
\* generateToken made for the account returns a payload whose id, username, role
\* and status are those of the account.
C13_VerifyReturnsAccount ==
    (probe.fn = "verifyToken" /\ probe.presented = probe.token
        /\ probe.at < probe.signedAt + JWT_EXPIRES_IN) =>
            /\ ~probe.result.threw /\ ~probe.result.null
            /\ probe.result.value.id = probe.account.id
            /\ probe.result.value.username = probe.account.username
            /\ probe.result.value.role = probe.account.role
            /\ probe.result.value.status = probe.account.status

\* the token of an administrator's account whose name holds an unpaired surrogate
\* was verified half a lifetime after it was signed, and the name came back intact
C13_Witness ==
    /\ probe.fn = "verifyToken" /\ probe.presented = probe.token
    /\ probe.at > probe.signedAt
    /\ probe.account.username = U_unpaired /\ probe.account.role = "admin"
    /\ ~probe.result.null /\ probe.result.value.username = U_unpaired

\* C14: verifyToken never throws; it returns null for every token that fails a
\* check -- not a well-formed token, bad signature, wrong issuer tag, wrong audience
\* tag, expired -- and the decoded payload only for a token this server signed,
\* unaltered and unexpired.
C14_VerifyNullOnFailure ==
    probe.fn = "verifyToken" =>
        LET t == probe.presented
            r == probe.result
            failed == \/ ~t.wf
                      \/ t.sig.key # JWT_SECRET \/ t.sig.over # t.payload
                      \/ t.payload.iss # "sarvatra-ai"
                      \/ t.payload.aud # "sarvatra-ai-users"
                      \/ probe.at >= t.payload.exp
        IN  /\ ~r.threw
            /\ r.null <=> failed
            /\ r.null <=> (t # probe.token \/ probe.at >= probe.signedAt + JWT_EXPIRES_IN)
            /\ ~r.null => r.value = t.payload

\* an unexpired token signed by this server for another issuer tag was answered null
C14_Witness ==
    /\ probe.fn = "verifyToken"
    /\ probe.presented = OtherIssuer(probe.token) /\ probe.at < probe.presented.payload.exp
    /\ probe.result.null /\ ~probe.result.threw

\* C16: requireAdminOrSelf calls next() if and only if req.user is set and either
\* its role is `admin` or its id equals the route's owner-id parameter; without
\* req.user it answers 401, and otherwise 403 echoing the caller's role.
C16_RoleOrSelf ==
    probe.fn = "requireAdminOrSelf" =>
        LET u == probe.user
            r == probe.result
        IN  /\ r.next <=> (u.set /\ (u.role = "admin" \/ u.id = probe.target))
            /\ r.next => r.user = u
            /\ ~u.set => r = Denied(401, [error |-> "Access denied. Authentication required."])
            /\ (u.set /\ ~r.next) =>
                  r = Denied(403, [error |-> "Access denied. Admin privileges or self-access required.",
                                   userRole |-> u.role])

\* a standard account was admitted to its own resource
C16_Witness ==
    /\ probe.fn = "requireAdminOrSelf"
    /\ probe.user.set /\ probe.user.role = "user" /\ probe.user.id = probe.target
    /\ probe.result.next

(***************************************************************************)
(* SpecBoot: the server under each configuration of its environment.  The  *)
(* modules are loaded (jwt-utils.ts computes its constants, routes.ts      *)
(* validates SESSION_SECRET), and requests are served only if routes.ts    *)
(* loaded.                                                                 *)
(***************************************************************************)
\* a routes.ts that only requires the secret to be set
SessionSecretCheck_presenceOnly(secret) ==
    IF Falsy(secret)
        THEN "SESSION_SECRET environment variable is required for secure encryption"
    ELSE ""

\* the validation at the top of routes.ts: the message of the Error it throws, or ""
SessionSecretCheck(secret) ==
    IF Falsy(secret)
        THEN "SESSION_SECRET environment variable is required for secure encryption"
    ELSE IF Len(secret) < 32
        THEN "SESSION_SECRET must be at least 32 characters long for secure encryption"
    ELSE ""

\* SESSION_SECRET not set, empty, of 31 and of 32 characters; JWT_SECRET not set and
\* set; JWT_EXPIRES_IN not set and set to '12h'
BootEnvs ==
    {[SESSION_SECRET |-> ss, JWT_SECRET |-> js, JWT_EXPIRES_IN |-> ex] :
        ss \in {Null, <<>>, [i \in 1..31 |-> 115], [i \in 1..32 |-> 115]},
        js \in {"", "configured-jwt-secret"},
        ex \in {0, DefaultLifetime \div 2}}

InitBoot ==
    /\ \E salt \in HandlerSalts : users = <<SeedAdmin(salt)>>
    /\ commands = DefaultCommands
    /\ inflight = EmptyBag
    /\ issued = {}
    /\ now = 0
    /\ resp = NoResp
    /\ probe = NoProbe
    /\ env \in BootEnvs
    /\ preferences = {}
    /\ client = FreshClient

\* the evaluation of routes.ts when the server imports it
LoadRoutes ==
    /\ probe = NoProbe
    /\ probe' = [fn |-> "routes.ts", error |-> SessionSecretCheck(SESSION_SECRET)]
    /\ UNCHANGED <<users, commands, inflight, issued, now, resp, env, preferences, client>>

\* routes.ts loaded, so registerRoutes exists and the server mounted the routes
RoutesRegistered == probe.fn = "routes.ts" /\ probe.error = ""

BootLogins == {[username |-> U_admin, password |-> P_admin123]}

NextBoot ==
    \/ LoadRoutes
    \/ \E body \in BootLogins : RoutesRegistered /\ issued = {} /\ LoginStart(body)
    \/ \E p \in Pending("login") : RoutesRegistered /\ LoginFinish(p)
    \/ RoutesRegistered /\ Tick
    \/ \E hdr \in ClientHeaders : RoutesRegistered /\ AuthMe(hdr)
    \/ \E hdr \in ClientHeaders : \E body \in UserInput(hdr, ApiKeyBodies) :
            RoutesRegistered /\ PutApiKeyStart(hdr, body)
    \/ \E p \in Pending("put-api-key"), accepted \in BOOLEAN :
            \E salt \in {CHOOSE x \in RandomBytes(SALT_LEN) : TRUE},
               iv \in {CHOOSE x \in RandomBytes(IV_LEN) : TRUE} :
                RoutesRegistered /\ PutApiKeyFinish(p, accepted, salt, iv)

SpecBoot == InitBoot /\ [][NextBoot]_vars

\* C17: when SESSION_SECRET is absent or shorter than 32 characters, loading
\* routes.ts fails with an error before any route is registered: no request is ever
\* served and no credential is encrypted or decrypted under such a secret.
C17_WeakSessionSecretFailsLoad ==
    LET weak == SESSION_SECRET = Null \/ Len(SESSION_SECRET) < 32 IN
    /\ probe.fn = "routes.ts" => (probe.error # "" <=> weak)
    /\ weak =>
          /\ ~RoutesRegistered
          /\ resp = NoResp /\ inflight = EmptyBag /\ issued = {}
          /\ \A i \in 1..Len(users) : users[i].openaiApiKey = Null

\* routes.ts was loaded with a secret of 31 characters and threw
C17_Witness ==
    /\ probe.fn = "routes.ts" /\ Len(SESSION_SECRET) = 31
    /\ probe.error = "SESSION_SECRET must be at least 32 characters long for secure encryption"

\* C18: when JWT_SECRET is missing from the configuration the process refuses to
\* start: no token is ever signed or verified without a configured signing secret.
C18_NoTokenWithoutJwtSecret ==
    env.JWT_SECRET = "" =>
        /\ ~RoutesRegistered
        /\ issued = {} /\ resp = NoResp

\* C15: every token issued at login expires 24 hours after issuance -- verifyToken
\* accepts it at every time before that and returns null from then on -- and the
\* expiresIn value of the login response ('24h') is the token's actual lifetime.
C15_TokenLivesOneDay ==
    /\ LoginReturnedToken =>
          /\ resp.body.expiresIn = "24h"
          /\ resp.body.token.payload.exp = resp.body.token.payload.iat + DefaultLifetime
    /\ \A t \in issued : verifyToken(t, now) <=> now < t.payload.iat + DefaultLifetime

(***************************************************************************)
(* SpecBlob: decryptApiKey applied to a blob that encryptApiKey made, as   *)
(* it is, damaged, or after the server was restarted with another          *)
(* SESSION_SECRET.                                                         *)
(***************************************************************************)
\* the hexadecimal digit that differs from `c` in its lowest bit
FlipHex(c) == HexDigit(((HexValue(c) + 1) % 2) + (2 * (HexValue(c) \div 2)))

\* the k-th colon-separated part of a blob with its first digit (if any) flipped
FlipPart(blob, k) ==
    LET parts == Split(blob, 58) IN
    Join([i \in 1..Len(parts) |->
             IF i = k /\ parts[i] # <<>>
                 THEN <<FlipHex(parts[i][1])>> \o Tail(parts[i]) ELSE parts[i]], 58)

BlobDamages ==
    {"none", "salt", "iv", "ciphertext", "tag", "tag-dropped", "part-added", "emptied",
     "not-hex"}

Damaged(blob, damage) ==
    LET parts == Split(blob, 58) IN
    CASE damage = "none" -> blob
      [] damage = "salt" -> FlipPart(blob, 1)
      [] damage = "iv" -> FlipPart(blob, 2)
      [] damage = "ciphertext" -> FlipPart(blob, 3)
      [] damage = "tag" -> FlipPart(blob, 4)
      [] damage = "tag-dropped" -> Join(SubSeq(parts, 1, 3), 58)
      [] damage = "part-added" -> blob \o <<58, 48, 48>>
      [] damage = "emptied" -> <<>>
      [] damage = "not-hex" -> Join([parts EXCEPT ![4] = <<122, 122>>], 58)

\* the server is restarted with another SESSION_SECRET of valid length
SecretReplaced ==
    /\ probe.fn = "encryptApiKey"
    /\ env = ConfiguredEnv
    /\ env' = [env EXCEPT !.SESSION_SECRET = [i \in 1..32 |-> 116]]
    /\ UNCHANGED <<users, commands, inflight, issued, now, resp, probe, preferences, client>>

BlobDecrypt(damage) ==
    /\ probe.fn = "encryptApiKey"
    /\ probe' = [fn |-> "decryptApiKey", apiKey |-> probe.apiKey, blob |-> probe.blob,
                 damage |-> damage, given |-> Damaged(probe.blob, damage),
                 result |-> decryptApiKey(Damaged(probe.blob, damage))]
    /\ UNCHANGED <<users, commands, inflight, issued, now, resp, env, preferences, client>>

NextBlob ==
    \/ \E apiKey \in PlaintextKeys, salt \in RandomBytes(SALT_LEN), iv \in RandomBytes(IV_LEN) :
            CipherEncrypt(apiKey, salt, iv)
    \/ SecretReplaced
    \/ \E damage \in BlobDamages : BlobDecrypt(damage)

SpecBlob == Init /\ [][NextBlob]_vars

\* C19: decryptApiKey fails with a MalformedBlob error (the 'Invalid encrypted data
\* format' error of the format test) when the blob does not split into exactly four
\* parts, and with a different error, AuthenticationFailed, when the tag check fails
\* (damaged blob or wrong secret); in both cases it returns no plaintext.
C19_DistinctDecryptErrors ==
    probe.fn = "decryptApiKey" =>
        LET r == probe.result
            malformed == Len(Split(probe.given, 58)) # 4
        IN  /\ ~r.ok => r.value = <<>>
            /\ malformed => (~r.ok /\ r.error = "Invalid encrypted data format")
            /\ (~malformed /\ ~r.ok) => r.error # "Invalid encrypted data format"
            /\ \A other \in BlobDamages :
                  LET o == decryptApiKey(Damaged(probe.blob, other)) IN
                  (~malformed /\ ~r.ok /\ ~o.ok /\ Len(Split(Damaged(probe.blob, other), 58)) # 4)
                      => o.error # r.error

(***************************************************************************)
(* SpecAi: the two AI routes, called by an account whose stored credential *)
(* may no longer decrypt.  The only writer of the credential field is PUT  *)
(* /api/user/api-key, which stores encryptApiKey's output; decryptApiKey   *)
(* reads process.env.SESSION_SECRET at every call rather than once at      *)
(* load, so the credential stops decrypting when that value is no longer   *)
(* the one it was encrypted under.                                         *)
(***************************************************************************)
\* textProcessSchema
textProcessSchema(body) == IsStringMin(body, "text", 1) /\ Has(body, "commandId")

\* speechProcessSchema: format has a default, audioData is any string
speechProcessSchema(body) == IsStringMin(body, "audioData", 0)

AiKeyUnusable ==
    [ok |-> FALSE, apiKey |-> <<>>, code |-> 500,
     body |-> [error |-> "Failed to access API key. Please re-enter your key in Settings."]]

\* the try/catch around decryptApiKey, with the catch answering with the error caught
UserOpenAI_rawError(user) ==
    LET d == decryptApiKey(user.openaiApiKey) IN
    IF d.ok THEN [ok |-> TRUE, apiKey |-> d.value, code |-> 0, body |-> [error |-> ""]]
    ELSE [AiKeyUnusable EXCEPT !.body = [error |-> d.error]]

\* the try/catch around decryptApiKey and `new OpenAI({ apiKey: decryptedApiKey })`:
\* the provider client of the caller, or the answer of the catch
UserOpenAI(user) ==
    LET d == decryptApiKey(user.openaiApiKey) IN
    IF d.ok THEN [ok |-> TRUE, apiKey |-> d.value, code |-> 0, body |-> [error |-> ""]]
    ELSE AiKeyUnusable

\* both routes from `storage.getUser(req.user.id)` to the provider call; `failure`
\* is the message of the route's outer catch
AiCall(route, req, caller, failure) ==
    LET found == getUser(caller.id)
        user == CHOOSE u \in found : TRUE
    IN  IF found = {} \/ Falsy(user.openaiApiKey)
            THEN /\ resp' = Exchange(route, req, 400,
                        [error |-> "OpenAI API key not configured. Please add your API key in Settings."])
                 /\ UNCHANGED inflight
        ELSE IF ~UserOpenAI(user).ok
            THEN /\ resp' = Exchange(route, req, UserOpenAI(user).code, UserOpenAI(user).body)
                 /\ UNCHANGED inflight
        ELSE Suspend([kind |-> route, req |-> req, caller |-> caller,
                      apiKey |-> UserOpenAI(user).apiKey, failure |-> failure])

\* POST /api/ai/process-text, up to `await userOpenAI.chat.completions.create(...)`
ProcessTextStart(hdr, body) ==
    LET gate == authenticateToken(hdr, now)
        req == [authorization |-> hdr, body |-> body]
        command == getCommand(body.commandId)
    IN  IF ~gate.next THEN GateDenial("process-text", req, gate)
        ELSE /\ IF ~textProcessSchema(body)
                    THEN /\ resp' = Exchange("process-text", req, 500,
                                        [error |-> "Failed to process text"])
                         /\ UNCHANGED inflight
                ELSE IF \A c \in command : ~c.isActive \/ ~c.publishedToUsers
                    THEN /\ resp' = Exchange("process-text", req, 404,
                                        [error |-> "Command not found or not available"])
                         /\ UNCHANGED inflight
                ELSE AiCall("process-text", req, gate.user, "Failed to process text")
             /\ UNCHANGED <<users, commands, issued, now, probe, env, preferences, client>>

\* POST /api/ai/speech-to-text, up to `await userOpenAI.audio.transcriptions.create(...)`
SpeechToTextStart(hdr, body) ==
    LET gate == authenticateToken(hdr, now)
        req == [authorization |-> hdr, body |-> body]
    IN  IF ~gate.next THEN GateDenial("speech-to-text", req, gate)
        ELSE /\ IF ~speechProcessSchema(body)
                    THEN /\ resp' = Exchange("speech-to-text", req, 500,
                                        [error |-> "Failed to process speech"])
                         /\ UNCHANGED inflight
                ELSE AiCall("speech-to-text", req, gate.user, "Failed to process speech")
             /\ UNCHANGED <<users, commands, issued, now, probe, env, preferences, client>>

\* what the provider does with a request
ProviderAnswers == {"answered", "Incorrect API key", "quota", "unavailable"}

\* either route from the provider's answer: the result, or the outer catch
AiFinish(p, answer) ==
    /\ p.kind \in {"process-text", "speech-to-text"}
    /\ Resume(p)
    /\ resp' =
         CASE answer = "answered" ->
                Exchange(p.kind, p.req, 200, [result |-> "answered"])
           [] answer = "Incorrect API key" ->
                Exchange(p.kind, p.req, 400,
                    [error |-> "Invalid OpenAI API key. Please check your key in Settings."])
           [] answer = "quota" ->
                Exchange(p.kind, p.req, 400,
                    [error |-> "OpenAI API quota exceeded. Please check your account."])
           [] OTHER -> Exchange(p.kind, p.req, 500, [error |-> p.failure])
    /\ UNCHANGED <<users, commands, issued, now, probe, env, preferences, client>>

\* process.env.SESSION_SECRET no longer holds the value the stored credentials were
\* encrypted under
SessionSecretReplaced ==
    /\ env = ConfiguredEnv
    /\ \E i \in 1..Len(users) : ~Falsy(users[i].openaiApiKey)
    /\ env' = [env EXCEPT !.SESSION_SECRET = [i \in 1..32 |-> 116]]
    /\ UNCHANGED <<users, commands, inflight, issued, now, resp, probe, preferences, client>>

AiLogins == {[username |-> U_admin, password |-> P_admin123]}
AiKeyBodies == {[apiKey |-> K_sk]}
AiTextBodies ==
    {[text |-> <<104, 105>>, commandId |-> 1], [text |-> <<104, 105>>, commandId |-> 2],
     [text |-> <<>>, commandId |-> 1]}
AiSpeechBodies == {[audioData |-> <<65, 65, 65, 65>>, format |-> "webm"], [format |-> "webm"]}

NextAi ==
    \/ \E body \in AiLogins : issued = {} /\ LoginStart(body)
    \/ \E p \in Pending("login") : LoginFinish(p)
    \/ \E hdr \in ClientHeaders : AdminPublishCommand(hdr, 1)
    \/ \E hdr \in ClientHeaders, body \in AiKeyBodies : PutApiKeyStart(hdr, body)
    \/ \E p \in Pending("put-api-key"), accepted \in BOOLEAN :
            \E salt \in {CHOOSE x \in RandomBytes(SALT_LEN) : TRUE},
               iv \in {CHOOSE x \in RandomBytes(IV_LEN) : TRUE} :
                PutApiKeyFinish(p, accepted, salt, iv)
    \/ \E hdr \in ClientHeaders : DeleteApiKey(hdr)
    \/ SessionSecretReplaced
    \/ \E hdr \in ClientHeaders, body \in AiTextBodies : ProcessTextStart(hdr, body)
    \/ \E hdr \in ClientHeaders, body \in AiSpeechBodies : SpeechToTextStart(hdr, body)
    \/ \E p \in Pending("process-text") \cup Pending("speech-to-text"),
          answer \in ProviderAnswers : AiFinish(p, answer)

SpecAi == Init /\ [][NextAi]_vars

\* the stored credential of the account a header's token names does not decrypt
CredentialFails(hdr) ==
    /\ authenticateToken(hdr, now).next
    /\ \E u \in getUser(authenticateToken(hdr, now).user.id) :
          ~Falsy(u.openaiApiKey) /\ ~decryptApiKey(u.openaiApiKey).ok

\* what the claim requires of a step that is such a request
FailsClosed(route) ==
    /\ resp'.route = route
    /\ resp'.code >= 400
    /\ DOMAIN resp'.body = {"error"}
    /\ resp'.body.error = "Failed to access API key. Please re-enter your key in Settings."
    /\ resp'.body.error # DecryptError.error
    /\ inflight' = inflight
    /\ users' = users

\* C20: a POST /api/ai/process-text or POST /api/ai/speech-to-text request that
\* reaches the decryption of the caller's stored credential, and whose decryption
\* fails, ends with an error response asking to re-enter the key, which carries
\* nothing else (no raw crypto error); the provider is not called for it (no
\* request is left waiting for the provider) and the store is unchanged.
C20_DecryptFailureAsksReentry ==
    [][ /\ \A hdr \in ClientHeaders, body \in AiTextBodies :
            ( /\ ProcessTextStart(hdr, body)
              /\ CredentialFails(hdr)
              /\ textProcessSchema(body)
              /\ \E c \in getCommand(body.commandId) : c.isActive /\ c.publishedToUsers )
                => FailsClosed("process-text")
        /\ \A hdr \in ClientHeaders, body \in AiSpeechBodies :
            (SpeechToTextStart(hdr, body) /\ CredentialFails(hdr) /\ speechProcessSchema(body))
                => FailsClosed("speech-to-text")
      ]_vars

\* POST /api/ai/process-text has answered a caller whose stored credential does not
\* decrypt, for a published command
C20_Witness ==
    /\ resp.route = "process-text"
    /\ resp.code = 500
    /\ resp.body.error = "Failed to access API key. Please re-enter your key in Settings."
    /\ CredentialFails(resp.req.authorization)
    /\ inflight = EmptyBag

(***************************************************************************)
(* Properties of the stored passwords, roles and statuses.                 *)
(***************************************************************************)
\* the passwords the requests of the model submit, and the one initialize() hashes
SubmittedPasswords == {P_admin123, P_strong, P_strongWs, P_weak}

\* C22: the password of every stored account is one that satisfies the strong
\* password policy: whatever value verifies against a stored hash has at least 8
\* characters, an uppercase letter, a digit and a symbol of the punctuation set.
C22_StoredPasswordsMeetPolicy ==
    \A i \in 1..Len(users) : \A pw \in SubmittedPasswords :
        BcryptCompare(pw, users[i].password) => strongPasswordSchema(pw)

(***************************************************************************)
(* SpecRoles: the requests that write an account's role or status, with    *)
(* bodies that name roles and statuses outside the declared ones.          *)
(***************************************************************************)
RolesLogins == {[username |-> U_admin, password |-> P_admin123]}

RolesRegisterBodies ==
    {[username |-> U_alice, password |-> P_strong],
     [username |-> U_alice, password |-> P_strong, role |-> "root", status |-> "banned"]}

RolesCreateBodies ==
    {[username |-> U_bob, password |-> P_strong, role |-> "admin"],
     [username |-> U_bob, password |-> P_strong, role |-> "root"],
     [username |-> U_bob, password |-> P_strong, status |-> "banned"]}

RolesUpdateBodies ==
    {[role |-> "admin", password |-> P_strong], [role |-> "root"],
     [role |-> "user", status |-> "banned"]}

NextRoles ==
    \/ \E body \in RolesLogins : issued = {} /\ LoginStart(body)
    \/ \E p \in Pending("login") : LoginFinish(p)
    \/ \E body \in RolesRegisterBodies : RegisterStart(body)
    \/ \E p \in Pending("register"), salt \in HandlerSalts : RegisterFinish(p, salt)
    \/ \E hdr \in ClientHeaders : \E body \in AdminInput(hdr, RolesCreateBodies) :
            AdminCreateUserStart(hdr, body)
    \/ \E p \in Pending("admin-create-user"), salt \in HandlerSalts :
            AdminCreateUserFinish(p, salt)
    \/ \E hdr \in ClientHeaders :
            \E id \in AdminInput(hdr, TargetIds), status \in AdminInput(hdr, StatusValues) :
                AdminSetStatus(hdr, id, status)
    \/ \E hdr \in ClientHeaders :
            \E id \in AdminInput(hdr, TargetIds), body \in AdminInput(hdr, RolesUpdateBodies) :
                AdminUpdateUserStart(hdr, id, body)
    \/ \E p \in Pending("admin-update-user"), salt \in HandlerSalts :
            AdminUpdateUserFinish(p, salt)

SpecRoles == Init /\ [][NextRoles]_vars

\* C23: in every reachable state the role of every account is `user` or `admin` and
\* its status is `pending`, `approved` or `rejected`.
C23_RoleAndStatusDeclared ==
    \A i \in 1..Len(users) :
        /\ users[i].role \in {"user", "admin"}
        /\ users[i].status \in {"pending", "approved", "rejected"}

\* what PUT /api/admin/users/:id/status must do with a request the gates admit
StatusUpdateOutcome(id, status) ==
    /\ resp'.route = "admin-set-status"
    /\ IF status \notin {"pending", "approved", "rejected"}
           THEN resp'.code = 400 /\ users' = users
       ELSE IF getUser(id) = {}
           THEN resp'.code = 404 /\ users' = users
       ELSE /\ resp'.code = 200
            /\ resp'.body.user.status = status
            /\ users' = [users EXCEPT ![id].status = status]

\* C24: a PUT /api/admin/users/:id/status request of an administrator sets the status
\* of an existing account to the requested one of pending, approved, rejected,
\* whatever its status was, and changes nothing else of the store; a status outside
\* these three is answered 400 and an unknown id 404, the store unchanged.
C24_StatusUpdateFrame ==
    [][\A hdr \in ClientHeaders, id \in TargetIds, status \in StatusValues :
          (AdminSetStatus(hdr, id, status) /\ AdminGate(hdr, now).next)
              => StatusUpdateOutcome(id, status)]_vars

\* an account that had been approved and had logged in was moved back to pending
C24_Witness ==
    /\ resp.route = "admin-set-status" /\ resp.code = 200
    /\ resp.req.body.status = "pending"
    /\ \E u \in getUser(resp.req.id) : u.status = "pending" /\ u.lastLoginAt # NoTime

(***************************************************************************)
(* SpecRace: the three writers of one account -- the administrator's       *)
(* status update, the owner's credential update and removal, the login's   *)
(* last-login update -- with the handlers that await interleaved.          *)
(***************************************************************************)
RaceLogins ==
    {[username |-> U_admin, password |-> P_admin123],
     [username |-> U_alice, password |-> P_strong]}

RaceRegisterBodies == {[username |-> U_alice, password |-> P_strong]}
RaceStatusValues == {"pending", "approved", "rejected"}
RaceKeyBodies == {[apiKey |-> K_sk]}

NextRace ==
    \/ \E body \in RaceLogins : LoginStart(body)
    \/ \E p \in Pending("login") : LoginFinish(p)
    \/ \E body \in RaceRegisterBodies : RegisterStart(body)
    \/ \E p \in Pending("register"), salt \in HandlerSalts : RegisterFinish(p, salt)
    \/ \E hdr \in ClientHeaders, status \in RaceStatusValues : AdminSetStatus(hdr, 2, status)
    \/ \E hdr \in ClientHeaders, body \in RaceKeyBodies : PutApiKeyStart(hdr, body)
    \/ \E p \in Pending("put-api-key"), accepted \in BOOLEAN :
            \E salt \in {CHOOSE x \in RandomBytes(SALT_LEN) : TRUE},
               iv \in {CHOOSE x \in RandomBytes(IV_LEN) : TRUE} :
                PutApiKeyFinish(p, accepted, salt, iv)
    \/ \E hdr \in ClientHeaders : DeleteApiKey(hdr)

SpecRace == Init /\ [][NextRace]_vars

\* the fields of account i that a step changes
ChangedFields(i) == {f \in DOMAIN users[i] : users'[i][f] # users[i][f]}

\* C25: concurrent updates of one account are last-write-wins and lose nothing:
\* every step that changes an account changes one field of it, to the value the
\* request that wrote it carries, and leaves every other field at its current
\* value, so that the record after any interleaving of a status update, a
\* credential update and a login is the record the same writes give in the serial
\* order in which they were applied.
C25_WritesMergeOneField ==
    [][\A i \in 1..Len(users) :
          LET changed == ChangedFields(i) IN
          /\ Cardinality(changed) <= 1
          /\ changed \subseteq {"status", "openaiApiKey", "lastLoginAt"}
          /\ changed = {"status"} =>
                /\ resp'.route = "admin-set-status" /\ resp'.req.id = i
                /\ users'[i].status = resp'.req.body.status
          /\ changed = {"lastLoginAt"} =>
                /\ resp'.route = "login" /\ resp'.req.username = users[i].username
                /\ users'[i].lastLoginAt = now
          /\ changed = {"openaiApiKey"} =>
                \/ /\ resp'.route = "put-api-key"
                   /\ decryptApiKey(users'[i].openaiApiKey).value = resp'.req.body.apiKey
                \/ resp'.route = "delete-api-key" /\ users'[i].openaiApiKey = Null
      ]_vars

\* a login that read the account while it was approved finished after the
\* administrator rejected it: the record keeps the rejection and the stored
\* credential, and has the new last login
C25_Witness ==
    /\ resp.route = "login" /\ resp.code = 200
    /\ \E u \in getUserByUsername(resp.req.username) :
          /\ u.status = "rejected"
          /\ u.lastLoginAt = now
          /\ u.openaiApiKey # Null
          /\ resp.body.user.status = "approved"

(***************************************************************************)
(* SpecPasswords: the requests that store a password.                      *)
(***************************************************************************)
PasswordsLogins ==
    {[username |-> U_admin, password |-> P_admin123],
     [username |-> U_alice, password |-> P_strong],
     [username |-> U_alice, password |-> P_weak]}

PasswordsRegisterBodies == {[username |-> U_alice, password |-> P_strong]}
PasswordsCreateBodies == {[username |-> U_bob, password |-> P_strong, role |-> "user"]}
PasswordsUpdateBodies == {[password |-> P_weak], [password |-> <<>>], [username |-> U_al]}

NextPasswords ==
    \/ \E body \in PasswordsLogins : LoginStart(body)
    \/ \E p \in Pending("login") : LoginFinish(p)
    \/ \E body \in PasswordsRegisterBodies : RegisterStart(body)
    \/ \E p \in Pending("register"), salt \in HandlerSalts : RegisterFinish(p, salt)
    \/ \E hdr \in ClientHeaders : \E body \in AdminInput(hdr, PasswordsCreateBodies) :
            AdminCreateUserStart(hdr, body)
    \/ \E p \in Pending("admin-create-user"), salt \in HandlerSalts :
            AdminCreateUserFinish(p, salt)
    \/ \E hdr \in ClientHeaders :
            \E id \in AdminInput(hdr, TargetIds), body \in AdminInput(hdr, PasswordsUpdateBodies) :
                AdminUpdateUserStart(hdr, id, body)
    \/ \E p \in Pending("admin-update-user"), salt \in HandlerSalts :
            AdminUpdateUserFinish(p, salt)

SpecPasswords == Init /\ [][NextPasswords]_vars

\* C26: in every reachable state the password field of every stored account is an
\* output of bcrypt.hash with cost 12, never a plaintext or empty value.
C26_PasswordsAreHashes ==
    \A i \in 1..Len(users) : IsBcryptHash(users[i].password, saltRounds)

(***************************************************************************)
(* SpecKeys: two accounts store, replace and remove their credentials and  *)
(* ask for text processing.                                                *)
(***************************************************************************)
K_sk2 == <<115, 107, 45, 50>>                                    \* "sk-2"

KeysLogins ==
    {[username |-> U_admin, password |-> P_admin123],
     [username |-> U_alice, password |-> P_strong]}

\* the salt and the initialization vector randomBytes returns to the handlers
KeysSalts == {CHOOSE x \in RandomBytes(SALT_LEN) : TRUE}
KeysIvs == {CHOOSE x \in RandomBytes(IV_LEN) : TRUE}

KeysRegisterBodies == {[username |-> U_alice, password |-> P_strong]}
KeysBodies == {[apiKey |-> K_sk], [apiKey |-> K_sk2], [apiKey |-> <<>>]}
KeysTextBodies == {[text |-> <<104, 105>>, commandId |-> 1]}

NextKeys ==
    \/ \E body \in KeysLogins :
            /\ \A t \in issued : t.payload.username # body.username
            /\ LoginStart(body)
    \/ \E p \in Pending("login") : LoginFinish(p)
    \/ \E body \in KeysRegisterBodies : RegisterStart(body)
    \/ \E p \in Pending("register"), salt \in HandlerSalts : RegisterFinish(p, salt)
    \/ \E hdr \in ClientHeaders : AdminSetStatus(hdr, 2, "approved")
    \/ \E hdr \in ClientHeaders : AdminPublishCommand(hdr, 1)
    \/ \E hdr \in ClientHeaders : \E body \in UserInput(hdr, KeysBodies) :
            PutApiKeyStart(hdr, body)
    \/ \E p \in Pending("put-api-key"), accepted \in BOOLEAN :
            \E salt \in KeysSalts, iv \in KeysIvs : PutApiKeyFinish(p, accepted, salt, iv)
    \/ \E hdr \in ClientHeaders : DeleteApiKey(hdr)
    \/ \E hdr \in ClientHeaders, body \in KeysTextBodies : ProcessTextStart(hdr, body)
    \/ \E p \in Pending("process-text") : AiFinish(p, "answered")

SpecKeys == Init /\ [][NextKeys]_vars

\* the account a header's token names
CallerId(hdr) == (CHOOSE t \in issued : hdr = Bearer(t)).payload.id

\* the store differs from the current one in the credential of account `id` alone
OnlyCredentialOf(id, value) == users' = [users EXCEPT ![id].openaiApiKey = value]

NotConfigured ==
    /\ resp'.code = 400
    /\ resp'.body = [error |-> "OpenAI API key not configured. Please add your API key in Settings."]
    /\ inflight' = inflight

\* the caller of an admitted request has no stored credential
NoCredential(hdr) ==
    /\ authenticateToken(hdr, now).next
    /\ \E u \in getUser(CallerId(hdr)) : u.openaiApiKey = Null

\* a step after which `resp` holds an exchange of this route, or none because the
\* handler is waiting: the steps a handler of the route can take
Answers(route) == resp'.route = route \/ resp' = NoResp

\* C28: PUT /api/user/api-key writes nothing before the provider's answer, answers
\* 400 with every stored credential unchanged when the body is invalid or the
\* provider refuses the key, and on success replaces the credential of the caller's
\* account alone, by a blob that decrypts to the submitted key; DELETE
\* /api/user/api-key sets the caller's credential, alone, to null, and a text
\* processing request of a caller without a credential is answered 400 'not
\* configured'.
C28_CredentialFrame ==
    [][ /\ Answers("put-api-key") =>
              \A hdr \in ClientHeaders, body \in KeysBodies :
                  PutApiKeyStart(hdr, body) =>
                      /\ users' = users
                      /\ (authenticateToken(hdr, now).next /\ ~updateApiKeySchema(body))
                            => resp'.code = 400
        /\ Answers("put-api-key") =>
              \A p \in Pending("put-api-key"), accepted \in BOOLEAN :
                  (\E salt \in KeysSalts, iv \in KeysIvs :
                        PutApiKeyFinish(p, accepted, salt, iv)) =>
                      IF accepted
                          THEN /\ resp'.code = 200
                               /\ \E u \in getUser(CallerId(p.req.authorization)) :
                                     /\ OnlyCredentialOf(u.id, users'[u.id].openaiApiKey)
                                     /\ decryptApiKey(users'[u.id].openaiApiKey).ok
                                     /\ decryptApiKey(users'[u.id].openaiApiKey).value
                                            = p.req.body.apiKey
                          ELSE resp'.code = 400 /\ users' = users
        /\ Answers("delete-api-key") =>
              \A hdr \in ClientHeaders :
                  (DeleteApiKey(hdr) /\ authenticateToken(hdr, now).next) =>
                      (resp'.code = 200 /\ OnlyCredentialOf(CallerId(hdr), Null))
        /\ Answers("process-text") =>
              \A hdr \in ClientHeaders, body \in KeysTextBodies :
                  ( /\ ProcessTextStart(hdr, body)
                    /\ NoCredential(hdr)
                    /\ \E c \in getCommand(body.commandId) : c.isActive /\ c.publishedToUsers )
                      => NotConfigured
      ]_vars

\* an account replaced its credential while another account has one: the caller's
\* blob decrypts to the key just submitted, the other's to the key it submitted
C28_Witness ==
    /\ resp.route = "put-api-key" /\ resp.code = 200
    /\ resp.req.body.apiKey = K_sk2
    /\ \E u \in getUser(CallerId(resp.req.authorization)) :
          /\ decryptApiKey(u.openaiApiKey).value = K_sk2
          /\ \E i \in 1..Len(users) :
                /\ i # u.id
                /\ users[i].openaiApiKey # Null
                /\ decryptApiKey(users[i].openaiApiKey).value = K_sk

(***************************************************************************)
(* SpecCommands: the administrator publishes, unpublishes, deactivates and *)
(* deletes commands while an approved caller lists them, asks for one to   *)
(* be executed and sets preferences on them.                               *)
(***************************************************************************)
CommandsLogins == {[username |-> U_admin, password |-> P_admin123]}

\* the ids requests name: two default commands and an id of no command
CommandIds == {1, 2, MaxCommands + 1}

CommandsUpdateBodies == {[isActive |-> FALSE], [isActive |-> TRUE]}

CommandsPreferenceBodies ==
    {[commandId |-> id, isVisible |-> FALSE] : id \in CommandIds}
        \cup {[commandId |-> 1, isVisible |-> TRUE, hasSeenNewBadge |-> TRUE],
              [commandId |-> 1]}

CommandsTextBodies == {[text |-> <<104, 105>>, commandId |-> id] : id \in CommandIds}

NextCommands ==
    \/ \E body \in CommandsLogins : issued = {} /\ LoginStart(body)
    \/ \E p \in Pending("login") : LoginFinish(p)
    \/ \E hdr \in ClientHeaders, id \in {1, 2} : AdminPublishCommand(hdr, id)
    \/ \E hdr \in ClientHeaders : AdminUnpublishCommand(hdr, 1)
    \/ \E hdr \in ClientHeaders, body \in CommandsUpdateBodies : AdminUpdateCommand(hdr, 1, body)
    \/ \E hdr \in ClientHeaders : AdminDeleteCommand(hdr, 2)
    \/ \E hdr \in ClientHeaders : GetCommands(hdr)
    \/ \E hdr \in ClientHeaders : GetCommandsWithPreferences(hdr)
    \/ \E hdr \in ClientHeaders, body \in CommandsPreferenceBodies :
            PutCommandPreference(hdr, body)
    \/ \E hdr \in ClientHeaders, body \in CommandsTextBodies : ProcessTextStart(hdr, body)

SpecCommands == Init /\ [][NextCommands]_vars

\* the command exists, is active and is published to users
Available(id) == \E c \in getCommand(id) : c.isActive /\ c.publishedToUsers

AvailableIds == {id \in 1..Len(commands) : Available(id)}

\* the ids of the commands a response lists
ListedIds == {resp'.body.commands[i].id : i \in 1..Len(resp'.body.commands)}

\* C29: through the user routes an approved caller reaches a command only if it
\* exists and is active and published at the time of the request: both listings
\* return exactly those commands, process-text answers 404 for any other command,
\* and a preference request answers 404 for an unknown command and 403 for one
\* that is unpublished or inactive, writing no preference; preferences are written
\* only for available commands.
C29_OnlyAvailableCommands ==
    [][ /\ \A hdr \in ClientHeaders :
              (authenticateToken(hdr, now).next
                    /\ (GetCommands(hdr) \/ GetCommandsWithPreferences(hdr))) =>
                  /\ resp'.code = 200
                  /\ ListedIds = AvailableIds
                  /\ Len(resp'.body.commands) = Cardinality(AvailableIds)
        /\ \A hdr \in ClientHeaders, body \in CommandsTextBodies :
              ( /\ ProcessTextStart(hdr, body)
                /\ authenticateToken(hdr, now).next
                /\ ~Available(body.commandId) )
                  => (resp'.code = 404 /\ inflight' = inflight)
        /\ \A hdr \in ClientHeaders, body \in CommandsPreferenceBodies :
              ( /\ PutCommandPreference(hdr, body)
                /\ authenticateToken(hdr, now).next
                /\ commandPreferenceSchema(body) )
                  => IF getCommand(body.commandId) = {}
                         THEN resp'.code = 404 /\ preferences' = preferences
                     ELSE IF ~Available(body.commandId)
                         THEN resp'.code = 403 /\ preferences' = preferences
                     ELSE /\ resp'.code = 200
                          /\ \E q \in preferences' :
                                /\ q.commandId = body.commandId
                                /\ q.isVisible = body.isVisible
        /\ \A q \in preferences' \ preferences : Available(q.commandId)
      ]_vars

\* a preference request for a command that is published but no longer active was
\* answered 403, and the preference written while it was available is as it was
C29_Witness ==
    /\ resp.route = "put-command-preference" /\ resp.code = 403
    /\ \E c \in getCommand(resp.req.body.commandId) : c.publishedToUsers /\ ~c.isActive
    /\ \E q \in preferences : q.commandId = resp.req.body.commandId /\ q.isVisible
    /\ resp.req.body.isVisible = FALSE

(***************************************************************************)
(* SpecUser: every route that can write an account, called with no token,  *)
(* with the token of an approved standard account, with that token edited  *)
(* to role admin, and with the token of an administrator.                  *)
(***************************************************************************)
UserLogins ==
    {[username |-> U_admin, password |-> P_admin123],
     [username |-> U_alice, password |-> P_strong]}

UserRegisterBodies ==
    {[username |-> U_alice, password |-> P_strong, role |-> "admin", status |-> "approved"]}

UserUpdateBodies == {[role |-> "admin"]}
UserKeyBodies == {[apiKey |-> K_sk]}
UserPreferenceBodies == {[commandId |-> 1, isVisible |-> FALSE]}
UserSpeechBodies == {[audioData |-> <<65, 65, 65, 65>>, format |-> "webm"]}

UserHeaders ==
    ClientHeaders \cup {Bearer(Escalated(t)) : t \in {t \in issued : t.payload.role # "admin"}}

\* the headers of the requests made without the token of an approved administrator
NonAdminHeaders == {hdr \in UserHeaders : CarriedAdminTokens(hdr) = {}}

NextUser ==
    \/ \E body \in UserLogins :
            /\ \A t \in issued : t.payload.username # body.username
            /\ LoginStart(body)
    \/ \E p \in Pending("login") : LoginFinish(p)
    \/ \E body \in UserRegisterBodies : RegisterStart(body)
    \/ \E p \in Pending("register"), salt \in HandlerSalts : RegisterFinish(p, salt)
    \/ \E hdr \in UserHeaders, status \in {"approved", "rejected"} :
            AdminSetStatus(hdr, 2, status)
    \/ \E hdr \in NonAdminHeaders : AdminSetStatus(hdr, 1, "rejected")
    \/ \E hdr \in UserHeaders, body \in UserUpdateBodies : AdminUpdateUserStart(hdr, 2, body)
    \/ \E hdr \in NonAdminHeaders : GetUserSettings(hdr)
    \/ \E hdr \in NonAdminHeaders, body \in UserKeyBodies : PutApiKeyStart(hdr, body)
    \/ \E p \in Pending("put-api-key"), salt \in KeysSalts, iv \in KeysIvs :
            PutApiKeyFinish(p, TRUE, salt, iv)
    \/ \E hdr \in NonAdminHeaders : DeleteApiKey(hdr)
    \/ \E hdr \in NonAdminHeaders, body \in UserPreferenceBodies :
            PutCommandPreference(hdr, body)
    \/ \E hdr \in NonAdminHeaders, body \in UserSpeechBodies : SpeechToTextStart(hdr, body)
    \/ \E p \in Pending("speech-to-text") : AiFinish(p, "answered")

SpecUser == Init /\ [][NextUser]_vars

\* a step changes the role or the status of an account that exists
RoleOrStatusChanged ==
    \E i \in 1..Len(users) :
        users'[i].role # users[i].role \/ users'[i].status # users[i].status

\* a step adds an account that is not a pending standard account
PrivilegedAccountAdded ==
    \E i \in (Len(users) + 1)..Len(users') :
        users'[i].role # "user" \/ users'[i].status # "pending"

\* C27: a request that does not carry the token of an approved administrator never
\* changes the role or the status of an existing account, and adds at most a
\* pending standard account: every step that changes a role or a status, or adds
\* another kind of account, answers a request to an /api/admin route that carries
\* a token this server issued to an approved administrator.
C27_OnlyAdminsChangeRoleOrStatus ==
    [][(RoleOrStatusChanged \/ PrivilegedAccountAdded) =>
          /\ resp'.route \in {"admin-set-status", "admin-update-user", "admin-create-user"}
          /\ CarriedAdminTokens(resp'.req.authorization) # {}]_vars

\* an approved standard account called the role update with its own token and with
\* that token edited to role admin, stored a credential, and its account is still
\* a standard one
C27_Witness ==
    /\ resp.route = "admin-update-user" /\ resp.code \in {401, 403}
    /\ \E t \in issued :
          /\ t.payload.role = "user"
          /\ resp.req.authorization = Bearer(Escalated(t))
          /\ \E u \in getUser(t.payload.id) :
                u.role = "user" /\ u.status = "approved" /\ u.openaiApiKey # Null

(***************************************************************************)
(* SpecClient: one browser running the client against the server.  The    *)
(* browser sends one request at a time; the server's handlers answer it;   *)
(* other sessions register an account and approve it in between.          *)
(***************************************************************************)
serverVars == <<users, commands, inflight, issued, now, probe, env, preferences>>

removeStoredToken(c) == [c EXCEPT !.token = <<>>]
setStoredToken(c, token) == [c EXCEPT !.token = <<token>>]

\* getAuthHeaders: an Authorization header exactly when a token is stored
getAuthHeaders == IF client.token = <<>> THEN NoHeader ELSE Bearer(client.token[1])

\* apiRequest and getQueryFn, up to `await fetch`: the request carries getAuthHeaders()
Fetch(route, body) ==
    /\ client.request = NoRequest
    /\ client' = [client EXCEPT !.request = [route |-> route,
                                            authorization |-> getAuthHeaders,
                                            body |-> body]]
    /\ UNCHANGED <<serverVars, resp>>

\* LoginScreen.handleSubmit; App renders LoginScreen while currentUser is null
handleSubmit(credentials) ==
    /\ client.currentUser = "none"
    /\ Fetch("login", credentials)

\* the useQuery of UserWorkspace, rendered for a standard account
WorkspaceQuery ==
    /\ client.currentUser = "user"
    /\ Fetch("commands-with-preferences", [none |-> TRUE])

\* the useQuery of AdminDashboard, rendered for an administrator
DashboardQuery ==
    /\ client.currentUser = "admin"
    /\ Fetch("admin-list-users", [none |-> TRUE])

\* the server takes the browser's request
Serve ==
    /\ client.request # NoRequest
    /\ resp.route # client.request.route
    /\ \/ /\ client.request.route = "login"
          /\ Pending("login") = {}
          /\ LoginStart(client.request.body)
       \/ /\ client.request.route = "commands-with-preferences"
          /\ GetCommandsWithPreferences(client.request.authorization)
       \/ /\ client.request.route = "admin-list-users"
          /\ AdminListUsers(client.request.authorization)

\* throwIfResNotOk, and the same test in getQueryFn: a 401 removes the stored token
throwIfResNotOk(c, res) == IF res.code = 401 THEN removeStoredToken(c) ELSE c

\* App.handleLogin: currentUser becomes the account of the response (its role
\* chooses the screen)
handleLogin(c, user) == [c EXCEPT !.currentUser = user.role]

\* the response reaches the browser: throwIfResNotOk, then for a login the
\* mutation's onSuccess (setStoredToken, onLogin)
Receive ==
    /\ client.request # NoRequest
    /\ resp.route = client.request.route
    /\ LET settled == [throwIfResNotOk(client, resp) EXCEPT !.request = NoRequest]
       IN  client' = IF resp.route = "login" /\ resp.code = 200
                         THEN handleLogin(setStoredToken(settled, resp.body.token),
                                          resp.body.user)
                         ELSE settled
    /\ resp' = NoResp
    /\ UNCHANGED serverVars

\* logout(), the Logout item of AdminDashboard: removeStoredToken, queryClient.clear,
\* window.location.reload (App starts again with currentUser null)
logout ==
    /\ client.currentUser = "admin"
    /\ client' = FreshClient
    /\ UNCHANGED <<serverVars, resp>>

\* App.handleLogout, the Logout item of UserWorkspace: setCurrentUser(null),
\* setLocation('/')
handleLogout ==
    /\ client.currentUser = "user"
    /\ client' = [client EXCEPT !.currentUser = "none"]
    /\ UNCHANGED <<serverVars, resp>>

ClientLogins ==
    {[username |-> U_admin, password |-> P_admin123],
     [username |-> U_alice, password |-> P_strong],
     [username |-> U_alice, password |-> P_weak]}

ClientRegisterBodies == {[username |-> U_alice, password |-> P_strong]}

NextClient ==
    \/ \E credentials \in ClientLogins : handleSubmit(credentials)
    \/ WorkspaceQuery
    \/ DashboardQuery
    \/ Serve
    \/ \E p \in Pending("login") : LoginFinish(p)
    \/ Receive
    \/ logout
    \/ handleLogout
    \/ Tick
    \/ \E body \in ClientRegisterBodies :
            /\ client.request = NoRequest
            /\ RegisterStart(body)
    \/ \E p \in Pending("register"), salt \in HandlerSalts :
            /\ client.request = NoRequest
            /\ RegisterFinish(p, salt)
    \/ \E t \in issued :
            /\ client.request = NoRequest
            /\ AdminSetStatus(Bearer(t), 2, "approved")

SpecClient == Init /\ [][NextClient]_vars

\* C30: after Logout, chosen in the administrator dashboard or in the user
\* workspace, the browser holds no stored token, and every request it sends before
\* the next successful login has no Authorization header: while the login screen is
\* shown (currentUser is null) nothing is stored under TOKEN_KEY, and a login
\* request carries no Authorization header.
C30_LogoutDiscardsToken ==
    /\ client.currentUser = "none" => client.token = <<>>
    /\ client.request.route = "login" => client.request.authorization = NoHeader

====
